---------------------------- MODULE Spec2Model ----------------------------
(***************************************************************************)
(* Macro recorder/player (keval8solanki/macro).                            *)
(*                                                                         *)
(* Four state machines share this module, each with its own               *)
(* specifications:                                                         *)
(*   Spec        the tray Supervisor (src/src/bar_app.rs): AppState, the   *)
(*               menu it displays, the two worker processes it spawns;     *)
(*   SpecPlay    the playback loop do_playback (src/src/play.rs), and      *)
(*               SpecPlayFair, the same with the thread scheduled;         *)
(*   SpecListen  do_playback next to the stop-hotkey listener of run_play; *)
(*   SpecRec     the recorder worker run_record (src/src/record.rs);       *)
(*   SpecLoad    a recording saved by save_events and loaded by run_play.  *)
(* A specification leaves the variables of the other machines at their     *)
(* initial values.                                                         *)
(***************************************************************************)
EXTENDS Integers, Sequences, FiniteSets, TLC

VARIABLES
    \* ---- Supervisor (bar_app.rs) ----
    app_state,        \* AppState, the fields behind the Mutex
    menu,             \* what the tray menu and icon currently display
    settings_window,  \* BarApp.settings_window is Some
    rec_worker,       \* OS status of the `macro record` child
    play_worker,      \* OS status of the `macro play` child
    play_args,        \* arguments the running playback child was spawned with
    fs,               \* the temporary recording file and the saved recording
    exited,           \* ControlFlow::Exit was requested (Quit)
    blocked,          \* the event loop is blocked inside child.wait()
    proxy_queue,      \* menu clicks sent through the EventLoopProxy, not yet handled
    \* ---- Player (play.rs, do_playback) ----
    player,
    \* ---- Recorder (record.rs, run_record) ----
    recorder

vars == << app_state, menu, settings_window, rec_worker, play_worker, play_args,
           fs, exited, blocked, proxy_queue, player, recorder >>

supVars == << app_state, menu, settings_window, rec_worker, play_worker,
              play_args, fs, exited, blocked, proxy_queue >>

NONE == "None"

(***************************************************************************)
(* Bounds of the model.                                                    *)
(***************************************************************************)
\* menu clicks that may be in flight between the click and its handling
MaxInflight == 1
\* longest event sequence played back
MaxLen == 2
\* largest finite repeat_count played back
MaxRepeat == 2
\* width in bits of the pass counter `count` (u32 in the source, narrowed
\* so that the counter can reach its limit)
CountBits == 2
\* steps of the playback thread counted after a cancellation
MaxStepsCounted == 8
\* most events a recording worker keeps in its buffer
MaxBuf == 2
\* clock ticks in a millisecond (the resolution of the recorder's clock)
TicksPerMs == 2
\* farthest, in milliseconds, the clock is followed from last_time
MaxAge == 2

(***************************************************************************)
(*                      SUPERVISOR  (src/src/bar_app.rs)                   *)
(***************************************************************************)

\* recordings the file picker can return
Files == {"a.json", "b.json"}
\* the temporary path chosen at the start of a recording
TempPath == "tmp.json"
\* Option<Child>: None, or the handle of the child of that kind
RecChild == "record_child"
PlayChild == "play_child"

HotkeyIds == {"record", "playback", "load"}
MenuIds == {"quit", "recording", "playback", "load", "settings"}

\* the SettingsMessage values the settings webview can post
SettingsMessages ==
    { [speed |-> 1, repeat |-> 1, interval |-> 0, should_play |-> p] : p \in BOOLEAN }
    \cup
    { [speed |-> 2, repeat |-> 0, interval |-> 1, should_play |-> p] : p \in BOOLEAN }

InitAppState ==
    [ is_recording |-> FALSE,
      recording_process |-> NONE,
      playback_process |-> NONE,
      playback_speed |-> 1,
      repeat_count |-> 1,
      repeat_interval |-> 0,
      pending_playback |-> NONE,
      current_recording_path |-> NONE,
      last_record_hotkey_pressed |-> FALSE,
      last_playback_hotkey_pressed |-> FALSE,
      last_load_hotkey_pressed |-> FALSE ]

\* The four displays update_menu_state can produce.
MenuRecording ==
    [ recording_text |-> "Stop", recording_enabled |-> TRUE,
      playback_text |-> "Play", playback_enabled |-> FALSE,
      load_text |-> "Load", load_enabled |-> FALSE,
      settings_enabled |-> FALSE, icon |-> "icon_recording" ]
MenuPlaying ==
    [ recording_text |-> "Record", recording_enabled |-> FALSE,
      playback_text |-> "Stop", playback_enabled |-> TRUE,
      load_text |-> "Load", load_enabled |-> FALSE,
      settings_enabled |-> FALSE, icon |-> "icon_playing" ]
MenuLoaded ==
    [ recording_text |-> "Record", recording_enabled |-> FALSE,
      playback_text |-> "Play", playback_enabled |-> TRUE,
      load_text |-> "Unload", load_enabled |-> TRUE,
      settings_enabled |-> TRUE, icon |-> "icon_armed" ]
MenuIdle ==
    [ recording_text |-> "Record", recording_enabled |-> TRUE,
      playback_text |-> "Play", playback_enabled |-> FALSE,
      load_text |-> "Load", load_enabled |-> TRUE,
      settings_enabled |-> FALSE, icon |-> "icon_idle" ]

\* BarApp::new: the menu as built (Record and Load enabled, Play and Settings
\* disabled, idle icon).
InitMenu == MenuIdle

\* The Supervisor's world as one record, so that handlers compose: a handler
\* maps a world to the set of worlds it can leave (one per outcome of the
\* environment: spawn result, file dialog answer, worker reaction, ...).
\* Five fields describe the operation itself and are not kept afterwards:
\*   calls   the handlers entered, in order;
\*   spawns  the Command::spawn attempts made;
\*   op_log  the steps taken (stop protocol, file dialog, file moves);
\*   lock    the AppState mutex is held (a MutexGuard is alive);
\*   held    the kinds of blocking step taken while the mutex was held.
World ==
    [ state |-> app_state, menu |-> menu, settings_window |-> settings_window,
      rec_worker |-> rec_worker, play_worker |-> play_worker,
      play_args |-> play_args, fs |-> fs, exited |-> exited,
      blocked |-> blocked,
      calls |-> << >>, spawns |-> << >>, op_log |-> << >>,
      lock |-> FALSE, held |-> {} ]

SetWorld(w) ==
    /\ app_state' = w.state
    /\ menu' = w.menu
    /\ settings_window' = w.settings_window
    /\ rec_worker' = w.rec_worker
    /\ play_worker' = w.play_worker
    /\ play_args' = w.play_args
    /\ fs' = w.fs
    /\ exited' = w.exited
    /\ blocked' = w.blocked

\* entering a handler
Enter(w, name) == [w EXCEPT !.calls = Append(@, name)]

\* a step that can block is taken: spawning a process ("spawn"), waiting for
\* a child ("wait"), showing a file dialog ("dialog"), locking the mutex
\* ("lock")
Blocking(w, kind) == [w EXCEPT !.held = IF w.lock THEN @ \cup {kind} ELSE @]

\* self.state.lock().unwrap() and drop(state)
Acquire(w) == [Blocking(w, "lock") EXCEPT !.lock = TRUE]
Release(w) == [w EXCEPT !.lock = FALSE]

\* the blocking step, if any, behind an entry of op_log
BlockingKind(step) ==
    CASE step \in {"dialog:picked", "dialog:cancelled", "pick:file", "pick:cancelled"}
            -> "dialog"
      [] step \in {"poll:exited", "poll:timeout", "wait:exited", "wait:blocked",
                   "kill_wait_playback"}
            -> "wait"
      [] step \in {"sigterm", "sigterm:failed"}   \* Command::new("kill").output()
            -> "spawn"
      [] OTHER -> NONE

\* update_menu_state that tests the playback handle before is_recording
update_menu_state_PlayingFirst(w0) ==
    LET w == Release(Acquire(Enter(w0, "update_menu_state")))
        is_recording == w.state.is_recording
        is_playing == w.state.playback_process # NONE
        has_recording == w.state.pending_playback # NONE
    IN  [w EXCEPT !.menu =
            IF is_playing THEN MenuPlaying
            ELSE IF is_recording THEN MenuRecording
            ELSE IF has_recording THEN MenuLoaded
            ELSE MenuIdle]

\* Lines 644-717
update_menu_state(w0) ==
    LET w == Release(Acquire(Enter(w0, "update_menu_state")))
        is_recording == w.state.is_recording
        is_playing == w.state.playback_process # NONE
        has_recording == w.state.pending_playback # NONE
    IN  [w EXCEPT !.menu =
            IF is_recording THEN MenuRecording
            ELSE IF is_playing THEN MenuPlaying
            ELSE IF has_recording THEN MenuLoaded
            ELSE MenuIdle]

Log(w, step) ==
    LET l == [w EXCEPT !.op_log = Append(@, step)] IN
    IF BlockingKind(step) = NONE THEN l ELSE Blocking(l, BlockingKind(step))

\* no playback child: nothing was passed
NoArgs == [ path |-> NONE, speed |-> 0, repeat |-> 0, interval |-> 0 ]

\* PlaySpawn that passes the default speed, repeat count and interval
PlaySpawn_DefaultArgs(w, ok) ==
    [Blocking(w, "spawn") EXCEPT !.spawns = Append(@,
        [ kind |-> "play", path |-> w.state.pending_playback,
          speed |-> 1, repeat |-> 1,
          interval |-> 0, immediate |-> TRUE, ok |-> ok ])]

\* Command::new(macro_bin).arg("play")... .spawn(), lines 290-300
PlaySpawn(w, ok) ==
    [Blocking(w, "spawn") EXCEPT !.spawns = Append(@,
        [ kind |-> "play", path |-> w.state.pending_playback,
          speed |-> w.state.playback_speed, repeat |-> w.state.repeat_count,
          interval |-> w.state.repeat_interval, immediate |-> TRUE, ok |-> ok ])]

\* handle_toggle_playback that does not refresh the menu after a stop
handle_toggle_playback_NoRefresh(w0) ==
    LET w == Acquire(Enter(w0, "handle_toggle_playback")) IN
    IF w.state.playback_process # NONE
    THEN { Release(
             Log([w EXCEPT !.state.playback_process = NONE,
                           !.play_worker = "none",
                           !.play_args = NoArgs], "kill_wait_playback")) }
    ELSE IF w.state.pending_playback # NONE
    THEN { update_menu_state(Release(
             [PlaySpawn(w, TRUE) EXCEPT
                 !.state.playback_process = PlayChild,
                 !.play_worker = "running",
                 !.play_args = [ path |-> w.state.pending_playback,
                                 speed |-> w.state.playback_speed,
                                 repeat |-> w.state.repeat_count,
                                 interval |-> w.state.repeat_interval ]])),
           Release(PlaySpawn(w, FALSE)) }
    ELSE { Release(w) }

\* Lines 262-314.  The guard taken at 263 is dropped at 272, 306 and 309,
\* and at the end of the function.
handle_toggle_playback(w0) ==
    LET w == Acquire(Enter(w0, "handle_toggle_playback")) IN
    IF w.state.playback_process # NONE
    THEN \* take(), kill(), wait(): the child is gone and reaped
         { update_menu_state(Release(
             Log([w EXCEPT !.state.playback_process = NONE,
                           !.play_worker = "none",
                           !.play_args = NoArgs], "kill_wait_playback"))) }
    ELSE IF w.state.pending_playback # NONE
    THEN { \* spawn succeeded
           update_menu_state(Release(
             [PlaySpawn(w, TRUE) EXCEPT
                 !.state.playback_process = PlayChild,
                 !.play_worker = "running",
                 !.play_args = [ path |-> w.state.pending_playback,
                                 speed |-> w.state.playback_speed,
                                 repeat |-> w.state.repeat_count,
                                 interval |-> w.state.repeat_interval ]])),
           \* spawn failed: the lock is dropped, nothing else
           Release(PlaySpawn(w, FALSE)) }
    ELSE { Release(w) }

\* Lines 331-379: child.try_wait(), the 1000 ms poll, SIGTERM, child.wait().
\* The worker reacts to SIGTERM through its ctrlc handler (record.rs 45-57),
\* which saves and exits. The result is a set of worlds; in a world with
\* blocked = TRUE child.wait() has not returned: the `kill` command could
\* not be executed, or the worker has not exited on the signal.
StopWorker(w) ==
    IF w.state.recording_process = NONE THEN { w }
    ELSE
    LET t == [w EXCEPT !.state.recording_process = NONE] IN
      ( IF w.rec_worker = "exited"
        THEN { Log([t EXCEPT !.rec_worker = "none"], "try_wait:exited") }
        ELSE LET r == Log(t, "try_wait:running") IN
             { \* the worker exits on its own during the poll
               Log([r EXCEPT !.rec_worker = "none"], "poll:exited"),
               \* the poll times out, SIGTERM is sent, wait() returns
               Log(Log(Log([r EXCEPT !.rec_worker = "none"],
                   "poll:timeout"), "sigterm"), "wait:exited"),
               \* the poll times out, `kill` cannot be run, wait() blocks
               Log(Log([r EXCEPT !.blocked = TRUE],
                   "poll:timeout"), "sigterm:failed"),
               \* the poll times out, SIGTERM is sent, the worker has not
               \* exited (its handler has not run to process::exit): wait()
               \* blocks
               Log(Log(Log([r EXCEPT !.blocked = TRUE],
                   "poll:timeout"), "sigterm"), "wait:blocked") } )
      \cup
      \* try_wait reports an error: child.kill(), no wait
      { Log(Log([t EXCEPT !.rec_worker =
                    IF w.rec_worker = "running" THEN "exited" ELSE @],
            "try_wait:error"), "kill") }

\* StopTail that removes the temporary file before it copies it
StopTail_RemoveBeforeCopy(w0) ==
    LET temp_path == w0.state.current_recording_path
        w == update_menu_state(Release([w0 EXCEPT !.state.current_recording_path = NONE]))
    IN
    IF temp_path = NONE THEN { w }
    ELSE IF ~w.fs.temp THEN { Log(w, "temp:missing") }
    ELSE
      { update_menu_state(
          Log(Log([w EXCEPT !.fs = [temp |-> FALSE, dest |-> TRUE]],
              "dialog:picked"), "rename:ok")),
        update_menu_state(
          Log(Log(Log([w EXCEPT !.fs = [temp |-> FALSE, dest |-> TRUE]],
              "dialog:picked"), "rename:failed"), "copy:ok")),
        Log(Log(Log([w EXCEPT !.fs.temp = FALSE],
            "dialog:picked"), "rename:failed"), "copy:failed"),
        Log([w EXCEPT !.fs.temp = FALSE], "dialog:cancelled") }

\* Lines 381-435: take the temporary path, refresh the menu, then move the
\* temporary recording to the destination the user picks.  The result of
\* fs::remove_file is discarded (`let _ =`): when it fails the temporary
\* file stays.
StopTail(w0) ==
    LET temp_path == w0.state.current_recording_path
        w == update_menu_state(Release([w0 EXCEPT !.state.current_recording_path = NONE]))
    IN
    IF temp_path = NONE THEN { w }
    ELSE IF ~w.fs.temp THEN { Log(w, "temp:missing") }
    ELSE
      { \* save dialog answered, fs::rename succeeds
        update_menu_state(
          Log(Log([w EXCEPT !.fs = [temp |-> FALSE, dest |-> TRUE]],
              "dialog:picked"), "rename:ok")),
        \* rename fails, fs::copy succeeds, the temporary file is removed
        update_menu_state(
          Log(Log(Log([w EXCEPT !.fs = [temp |-> FALSE, dest |-> TRUE]],
              "dialog:picked"), "rename:failed"), "copy:ok")),
        \* rename fails, fs::copy succeeds, remove_file fails
        update_menu_state(
          Log(Log(Log(Log([w EXCEPT !.fs = [temp |-> TRUE, dest |-> TRUE]],
              "dialog:picked"), "rename:failed"), "copy:ok"), "remove:failed")),
        \* rename and copy both fail
        Log(Log(Log(w, "dialog:picked"), "rename:failed"), "copy:failed"),
        \* the dialog is cancelled: the temporary file is removed
        Log([w EXCEPT !.fs.temp = FALSE], "dialog:cancelled"),
        \* the dialog is cancelled, remove_file fails
        Log(Log(w, "dialog:cancelled"), "remove:failed") }

\* Command::new(macro_bin).arg("record").arg(path).arg("--immediate").spawn()
RecSpawn(w, ok) ==
    [Blocking(w, "spawn") EXCEPT !.spawns = Append(@,
        [ kind |-> "record", path |-> w.state.current_recording_path,
          speed |-> 0, repeat |-> 0, interval |-> 0,   \* not passed to `record`
          immediate |-> TRUE, ok |-> ok ])]

StartRecording(w0) ==
    LET w == [w0 EXCEPT !.state.is_recording = TRUE,
                        !.state.pending_playback = NONE,
                        !.state.current_recording_path = TempPath]
    IN
    { \* spawned; the worker creates the file (record.rs 26) and records
      update_menu_state(Release(
        [RecSpawn(w, TRUE) EXCEPT !.state.recording_process = RecChild,
                                  !.rec_worker = "running",
                                  !.fs = [temp |-> TRUE, dest |-> FALSE]])),
      \* spawned; the worker cannot create the file and exits with the error
      update_menu_state(Release(
        [RecSpawn(w, TRUE) EXCEPT !.state.recording_process = RecChild,
                                  !.rec_worker = "exited",
                                  !.fs = [temp |-> FALSE, dest |-> FALSE]])),
      \* spawn failed
      update_menu_state(Release(
        [RecSpawn(w, FALSE) EXCEPT !.state.is_recording = FALSE,
                                   !.state.current_recording_path = NONE])) }

\* handle_toggle_recording without the playback check of lines 320-323
handle_toggle_recording_NoPlaybackCheck(w0) ==
    LET w == Acquire(Enter(w0, "handle_toggle_recording")) IN
    IF w.state.is_recording
    THEN UNION { IF s.blocked THEN { s } ELSE StopTail(s) :
                 s \in StopWorker([w EXCEPT !.state.is_recording = FALSE]) }
    ELSE StartRecording(w)

\* Lines 316-480.
handle_toggle_recording(w0) ==
    LET w == Acquire(Enter(w0, "handle_toggle_recording")) IN
    IF w.state.playback_process # NONE
    THEN { Release(w) }
    ELSE IF w.state.is_recording
    THEN UNION { IF s.blocked THEN { s } ELSE StopTail(s) :
                 s \in StopWorker([w EXCEPT !.state.is_recording = FALSE]) }
    ELSE StartRecording(w)

\* rfd::FileDialog::pick_file(): a file, or None when cancelled
PickFile == Files \cup {NONE}

\* handle_hotkey whose playback branch fires on every Pressed event
handle_hotkey_RepeatFires(w0, id, pressed) ==
    LET w == Acquire(Enter(w0, "handle_hotkey")) IN
    IF id = "record" THEN
        IF pressed /\ ~w.state.last_record_hotkey_pressed THEN
            LET l == [w EXCEPT !.state.last_record_hotkey_pressed = TRUE] IN
            IF l.state.pending_playback # NONE
            THEN { Release(l) }
            ELSE handle_toggle_recording(Release(l))
        ELSE IF ~pressed
        THEN { Release([w EXCEPT !.state.last_record_hotkey_pressed = FALSE]) }
        ELSE { Release(w) }
    ELSE IF id = "playback" THEN
        IF pressed THEN
            handle_toggle_playback(
                Release([w EXCEPT !.state.last_playback_hotkey_pressed = TRUE]))
        ELSE IF ~pressed
        THEN { Release([w EXCEPT !.state.last_playback_hotkey_pressed = FALSE]) }
        ELSE { Release(w) }
    ELSE IF id = "load" THEN
        IF pressed /\ ~w.state.last_load_hotkey_pressed THEN
            LET l == [w EXCEPT !.state.last_load_hotkey_pressed = TRUE]
                u == Release(l)     \* drop(state), line 216
            IN
            IF l.state.is_recording
            THEN { Release(l) }
            ELSE IF l.state.pending_playback # NONE
            THEN \* unload
                 { update_menu_state(Release(
                     [Acquire(u) EXCEPT !.state.pending_playback = NONE])) }
            ELSE \* load: the file picker
                 { IF path = NONE THEN Log(u, "pick:cancelled")
                   ELSE update_menu_state(Release(
                          [Acquire(Log(u, "pick:file"))
                              EXCEPT !.state.pending_playback = path]))
                   : path \in PickFile }
        ELSE IF ~pressed
        THEN { Release([w EXCEPT !.state.last_load_hotkey_pressed = FALSE]) }
        ELSE { Release(w) }
    ELSE { Release(w) }

\* Lines 167-247.  `pressed` is event.state == HotKeyState::Pressed.
handle_hotkey(w0, id, pressed) ==
    LET w == Acquire(Enter(w0, "handle_hotkey")) IN
    IF id = "record" THEN
        IF pressed /\ ~w.state.last_record_hotkey_pressed THEN
            LET l == [w EXCEPT !.state.last_record_hotkey_pressed = TRUE] IN
            IF l.state.pending_playback # NONE
            THEN { Release(l) }
            ELSE handle_toggle_recording(Release(l))
        ELSE IF ~pressed
        THEN { Release([w EXCEPT !.state.last_record_hotkey_pressed = FALSE]) }
        ELSE { Release(w) }
    ELSE IF id = "playback" THEN
        IF pressed /\ ~w.state.last_playback_hotkey_pressed THEN
            handle_toggle_playback(
                Release([w EXCEPT !.state.last_playback_hotkey_pressed = TRUE]))
        ELSE IF ~pressed
        THEN { Release([w EXCEPT !.state.last_playback_hotkey_pressed = FALSE]) }
        ELSE { Release(w) }
    ELSE IF id = "load" THEN
        IF pressed /\ ~w.state.last_load_hotkey_pressed THEN
            LET l == [w EXCEPT !.state.last_load_hotkey_pressed = TRUE]
                u == Release(l)     \* drop(state), line 216
            IN
            IF l.state.is_recording
            THEN { Release(l) }
            ELSE IF l.state.pending_playback # NONE
            THEN \* unload
                 { update_menu_state(Release(
                     [Acquire(u) EXCEPT !.state.pending_playback = NONE])) }
            ELSE \* load: the file picker
                 { IF path = NONE THEN Log(u, "pick:cancelled")
                   ELSE update_menu_state(Release(
                          [Acquire(Log(u, "pick:file"))
                              EXCEPT !.state.pending_playback = path]))
                   : path \in PickFile }
        ELSE IF ~pressed
        THEN { Release([w EXCEPT !.state.last_load_hotkey_pressed = FALSE]) }
        ELSE { Release(w) }
    ELSE { Release(w) }

\* Lines 512-561: focus the window if it is open, else build it.
\* The window is built from the settings read under the lock (530-537).
open_settings(w0) ==
    LET w == Enter(w0, "open_settings") IN
    IF w.settings_window THEN w
    ELSE [Release(Acquire(w)) EXCEPT !.settings_window = TRUE]

\* handle_file_selected that keeps the guard while it refreshes the menu
handle_file_selected_NoDrop(w0, path) ==
    LET w == Acquire(Enter(w0, "handle_file_selected")) IN
    open_settings(update_menu_state(
        [w EXCEPT !.state.pending_playback = path]))

\* Lines 249-260.
handle_file_selected(w0, path) ==
    LET w == Acquire(Enter(w0, "handle_file_selected")) IN
    open_settings(update_menu_state(
        Release([w EXCEPT !.state.pending_playback = path])))

\* Lines 482-505.
handle_settings_applied(w0, settings) ==
    LET w == Acquire(Enter(w0, "handle_settings_applied"))
        s == Release([w EXCEPT !.state.playback_speed = settings.speed,
                               !.state.repeat_count = settings.repeat,
                               !.state.repeat_interval = settings.interval,
                               !.settings_window = FALSE])
    IN  IF settings.should_play THEN handle_toggle_playback(s) ELSE { s }

\* Lines 507-510.
handle_window_close(w0) ==
    LET w == Enter(w0, "handle_window_close") IN
    [w EXCEPT !.settings_window = FALSE]

\* Lines 563-617. child.kill() on Quit sends SIGKILL and does not wait.
handle_menu_event(w0, id) ==
    LET w == Enter(w0, "handle_menu_event") IN
    IF id = "quit" THEN
        { [Release(Acquire(w)) EXCEPT !.state.recording_process = NONE,
                    !.state.playback_process = NONE,
                    !.rec_worker = IF w.state.recording_process # NONE
                                      /\ @ = "running" THEN "exited" ELSE @,
                    !.play_worker = IF w.state.playback_process # NONE
                                       /\ @ = "running" THEN "exited" ELSE @,
                    !.exited = TRUE] }
    ELSE IF id = "recording" THEN handle_toggle_recording(w)
    ELSE IF id = "playback" THEN handle_toggle_playback(w)
    ELSE IF id = "load" THEN
        IF w.state.pending_playback # NONE
        THEN { update_menu_state(Release(
                 [Acquire(w) EXCEPT !.state.pending_playback = NONE])) }
        ELSE \* drop(state) at 594, then the file picker
             { IF path = NONE THEN Log(Release(Acquire(w)), "pick:cancelled")
               ELSE handle_file_selected(Log(Release(Acquire(w)), "pick:file"), path)
               : path \in PickFile }
    ELSE IF id = "settings" THEN { open_settings(w) }
    ELSE { w }

\* check_playback_status that does not put a running child's handle back
check_playback_status_DropRunning(w0) ==
    LET w == Acquire(Enter(w0, "check_playback_status")) IN
    IF w.state.playback_process = NONE THEN { Release(w) }
    ELSE
      ( IF w.play_worker = "exited"
        THEN { update_menu_state(Release(
                 Log([w EXCEPT !.state.playback_process = NONE,
                               !.play_worker = "none",
                               !.play_args = NoArgs], "try_wait:exited"))) }
        ELSE { Release(Log([w EXCEPT !.state.playback_process = NONE],
                           "try_wait:running")) } )
      \cup
      { update_menu_state(Release(
          Log([w EXCEPT !.state.playback_process = NONE], "try_wait:error"))) }

\* Lines 619-642. try_wait() is non-blocking.
check_playback_status(w0) ==
    LET w == Acquire(Enter(w0, "check_playback_status")) IN
    IF w.state.playback_process = NONE THEN { Release(w) }
    ELSE
      ( IF w.play_worker = "exited"
        THEN \* Ok(Some(status)): the handle stays taken
             { update_menu_state(Release(
                 Log([w EXCEPT !.state.playback_process = NONE,
                               !.play_worker = "none",
                               !.play_args = NoArgs], "try_wait:exited"))) }
        ELSE \* Ok(None): put it back
             { Release(Log(w, "try_wait:running")) } )
      \cup
      \* Err(e): the handle stays taken, the process is left as it is
      { update_menu_state(Release(
          Log([w EXCEPT !.state.playback_process = NONE], "try_wait:error"))) }

(***************************************************************************)
(* The Supervisor's operations, as the event loop dispatches them.  Menu   *)
(* clicks and hotkey events reach the loop through the EventLoopProxy      *)
(* (lines 128-141).  A click is accepted by the menu only on an enabled    *)
(* item, as displayed when it is made, and is handled later; a hotkey is   *)
(* never refused, so taking and handling it is one step.  The proxy queue  *)
(* is first-in first-out: a hotkey handled here while a click waits stands *)
(* for a hotkey event posted before the click and not yet handled when the *)
(* click was made (the menu still showed the state before the hotkey).     *)
(***************************************************************************)
Running == ~exited /\ ~blocked

MenuEnabled(id) ==
    CASE id = "recording" -> menu.recording_enabled
      [] id = "playback"  -> menu.playback_enabled
      [] id = "load"      -> menu.load_enabled
      [] id = "settings"  -> menu.settings_enabled
      [] OTHER            -> TRUE     \* Quit is always enabled

PlayerOff == [pc |-> "off"]
RecorderOff == [pc |-> "off"]

InitSup ==
    /\ app_state = InitAppState
    /\ menu = InitMenu
    /\ settings_window = FALSE
    /\ rec_worker = "none"
    /\ play_worker = "none"
    /\ play_args = NoArgs
    /\ fs = [temp |-> FALSE, dest |-> FALSE]
    /\ exited = FALSE
    /\ blocked = FALSE
    /\ proxy_queue = << >>

Init ==
    /\ InitSup
    /\ player = PlayerOff
    /\ recorder = RecorderOff

\* the user clicks an enabled item of the tray menu (MenuEvent handler, 132-134)
MenuClick(id) ==
    /\ Running
    /\ MenuEnabled(id)
    /\ Len(proxy_queue) < MaxInflight
    /\ proxy_queue' = Append(proxy_queue, id)
    /\ UNCHANGED << app_state, menu, settings_window, rec_worker, play_worker,
                    play_args, fs, exited, blocked >>
    /\ UNCHANGED << player, recorder >>

\* the event loop takes the oldest click: AppEvent::MenuEvent
MenuEvent ==
    /\ Running
    /\ proxy_queue # << >>
    /\ proxy_queue' = Tail(proxy_queue)
    /\ \E w \in handle_menu_event(World, Head(proxy_queue)) : SetWorld(w)
    /\ UNCHANGED << player, recorder >>

\* AppEvent::GlobalHotkeyEvent
HotkeyEvent(id, pressed) ==
    /\ Running
    /\ \E w \in handle_hotkey(World, id, pressed) : SetWorld(w)
    /\ UNCHANGED << proxy_queue, player, recorder >>

\* AppEvent::SettingsApplied, posted by the settings webview (548-555)
SettingsApplied(settings) ==
    /\ Running
    /\ settings_window
    /\ \E w \in handle_settings_applied(World, settings) : SetWorld(w)
    /\ UNCHANGED << proxy_queue, player, recorder >>

\* the settings window is closed by the user
WindowClose ==
    /\ Running
    /\ settings_window
    /\ SetWorld(handle_window_close(World))
    /\ UNCHANGED << proxy_queue, player, recorder >>

\* the periodic status poll of the event loop
Tick ==
    /\ Running
    /\ \E w \in check_playback_status(World) : SetWorld(w)
    /\ UNCHANGED << proxy_queue, player, recorder >>

\* the playback child exits on its own (all repeats done, or its stop hotkey)
PlaybackWorkerExits ==
    /\ play_worker = "running"
    /\ play_worker' = "exited"
    /\ UNCHANGED << app_state, menu, settings_window, rec_worker, play_args, fs,
                    exited, blocked, proxy_queue >>
    /\ UNCHANGED << player, recorder >>

\* the recording child exits on its own (its stop hotkey, record.rs 100-110)
RecordingWorkerExits ==
    /\ rec_worker = "running"
    /\ rec_worker' = "exited"
    /\ UNCHANGED << app_state, menu, settings_window, play_worker, play_args, fs,
                    exited, blocked, proxy_queue >>
    /\ UNCHANGED << player, recorder >>

\* child.wait() (line 367) returns once the child has exited; the rest of
\* handle_toggle_recording runs
WaitReturns ==
    /\ blocked
    /\ rec_worker = "exited"
    /\ \E w \in StopTail(Log([World EXCEPT !.blocked = FALSE,
                                           !.rec_worker = "none"],
                             "wait:exited")) : SetWorld(w)
    /\ UNCHANGED << proxy_queue, player, recorder >>

Next ==
    \/ \E id \in MenuIds : MenuClick(id)
    \/ MenuEvent
    \/ \E id \in HotkeyIds, pressed \in BOOLEAN : HotkeyEvent(id, pressed)
    \/ \E settings \in SettingsMessages : SettingsApplied(settings)
    \/ WindowClose
    \/ Tick
    \/ PlaybackWorkerExits
    \/ RecordingWorkerExits
    \/ WaitReturns

Spec == Init /\ [][Next]_vars

(***************************************************************************)
(* What the operations the event loop can dispatch in the current state    *)
(* leave behind: every Supervisor step of Next installs one of these       *)
(* worlds.                                                                 *)
(***************************************************************************)
HotkeyOps ==
    UNION { handle_hotkey(World, id, pressed) :
            id \in HotkeyIds, pressed \in BOOLEAN }
MenuOps ==
    IF proxy_queue # << >>
    THEN handle_menu_event(World, Head(proxy_queue)) ELSE {}
SettingsOps ==
    IF settings_window
    THEN UNION { handle_settings_applied(World, s) : s \in SettingsMessages }
    ELSE {}
PollOps == check_playback_status(World)
Ops == IF Running THEN HotkeyOps \cup MenuOps \cup SettingsOps \cup PollOps
       ELSE {}

\* the operation that left world w entered handler `name`
Invokes(w, name) == \E i \in 1..Len(w.calls) : w.calls[i] = name

\* the five fields of AppState that say which worker runs on which file
SameSession(a, b) ==
    /\ a.is_recording = b.is_recording
    /\ a.recording_process = b.recording_process
    /\ a.playback_process = b.playback_process
    /\ a.pending_playback = b.pending_playback
    /\ a.current_recording_path = b.current_recording_path

(***************************************************************************)
(*                          CLAIMS  C1 - C4                                *)
(***************************************************************************)

\* C1: in every reachable Supervisor state the recording handle and the
\* playback handle are never both held (recording_process and
\* playback_process are not both Some).
C1_NeverBothWorkers ==
    ~(app_state.recording_process # NONE /\ app_state.playback_process # NONE)

\* C2: an operation that enters handle_toggle_recording while a playback
\* handle is held changes nothing: no spawn is attempted, the recording
\* child is as before, and is_recording, recording_process,
\* playback_process, pending_playback and current_recording_path keep
\* their values.
C2_RecordRejectedDuringPlayback ==
    \A w \in Ops :
        (Invokes(w, "handle_toggle_recording")
            /\ app_state.playback_process # NONE)
        => /\ SameSession(w.state, app_state)
           /\ w.spawns = << >>
           /\ w.rec_worker = rec_worker
           /\ w.fs = fs

\* C2 witness: a toggle_recording request is dispatched while a playback
\* handle is held.
C2_Witness ==
    /\ app_state.playback_process # NONE
    /\ \E w \in Ops : Invokes(w, "handle_toggle_recording")

\* C3: a request to start playback (playback hotkey press, Play menu
\* item, settings applied with should_play) made while a recording worker
\* is active, with no playback running, spawns nothing and leaves the
\* session fields unchanged, whatever the loaded selection.
C3_PlayRejectedDuringRecording ==
    \A w \in Ops :
        (Invokes(w, "handle_toggle_playback")
            /\ app_state.recording_process # NONE
            /\ app_state.playback_process = NONE)
        => /\ SameSession(w.state, app_state)
           /\ w.spawns = << >>
           /\ w.play_worker = play_worker

\* C4: after a status poll no handle is left on a worker that had exited
\* on its own, and the state derived from AppState no longer reports
\* Playing / Recording for it.  Stated for both worker kinds; for the
\* recording worker the case is the one that had created its file and exited
\* later (its stop hotkey).
C4_PollClearsExitedWorkers ==
    \A w \in (IF Running THEN PollOps ELSE {}) :
        /\ (app_state.playback_process # NONE /\ play_worker = "exited")
            => (w.state.playback_process = NONE /\ w.menu # MenuPlaying)
        /\ (app_state.recording_process # NONE /\ rec_worker = "exited"
                /\ fs.temp)
            => (w.state.recording_process = NONE /\ ~w.state.is_recording
                /\ w.menu # MenuRecording)

(***************************************************************************)
(*                 PLAYER  (src/src/play.rs, do_playback)                  *)
(*                                                                         *)
(* do_playback runs on its own thread; the listener thread sets stop_flag. *)
(* One step of the model is the code between two points where the other    *)
(* thread can be observed: a load of stop_flag, a sleep, an emission.      *)
(***************************************************************************)

\* thread::sleep(Duration::from_millis(50)) in the interval wait
PollMs == 50

\* count is a u32: it takes the values 0 .. CountMax
CountMax == 2^CountBits - 1

\* the events a recording is made of here: the captured kind and delay_ms
EventPool ==
    { [event_type |-> "KeyPress(KeyA)", delay_ms |-> 0],
      [event_type |-> "KeyRelease(KeyA)", delay_ms |-> 75] }

SeqsUpTo(S, n) == UNION { [1..k -> S] : k \in 0..n }

\* speed as a ratio num/den of integers (f64 in the source)
Speeds == { [num |-> 1, den |-> 1], [num |-> 2, den |-> 1] }
\* repeat_interval in milliseconds (f64 seconds in the source)
IntervalsMs == {0, 100}

\* the emission attempts the trace keeps (more than any finite run makes)
TraceCap == MaxRepeat * MaxLen + 1

Terminal == {"complete", "stopped", "stopped_interval", "panicked"}

\* the passes that are counted: one more than a u32 counts before it wraps
PassCap == CountMax + 2

\* ScaledDelay that rounds to the nearest millisecond
ScaledDelay_Rounded(delay_ms, speed) ==
    (2 * delay_ms * speed.den + speed.num) \div (2 * speed.num)

\* (event.delay_ms as f64 / speed) as u64, line 230
ScaledDelay(delay_ms, speed) == (delay_ms * speed.den) \div speed.num

\* do_playback is entered: count = 0 (line 197)
InitPlayer(events, speed, repeat_count, repeat_interval, overflow_checks) ==
    [ pc |-> "loop",
      events |-> events, speed |-> speed, repeat_count |-> repeat_count,
      repeat_interval |-> repeat_interval,
      overflow_checks |-> overflow_checks,  \* the build panics on overflow
      stop_flag |-> FALSE,
      count |-> 0, idx |-> 1, elapsed |-> 0,
      trace |-> << >>,            \* emission attempts: event and wait before it
      any_failed |-> FALSE,       \* some simulate() call returned Err
      cancel_pc |-> NONE,         \* where the loop was when stop_flag was set
      emitted_after_cancel |-> 0, \* emission attempts made after that
      sleeps_after_cancel |-> 0,  \* sleeps that ended after that
      steps_after_cancel |-> 0,   \* steps the thread took after that
      slept |-> 0,                \* ms slept since the last emission attempt
      pass_wait |-> 0,            \* ms slept before events in the current pass
      passes |-> 0,               \* passes begun (counted up to PassCap)
      waits |-> 0,                \* interval waits begun since the last pass
      gap |-> 0,                  \* ms of interval wait since the last pass
      pass_waits |-> 0,           \* waits, as the current pass began
      pass_gap |-> 0,             \* gap, as the current pass began
      entered_after_cancel |-> FALSE, \* a pass began with stop_flag set
      late_emission |-> FALSE,    \* an event of such a pass was emitted
      \* the listener thread of run_play: StopState, the stop combo, and
      \* whether the callback has called process::exit
      cmd_pressed |-> FALSE, alt_pressed |-> FALSE,
      ctrl_pressed |-> FALSE, shift_pressed |-> FALSE,
      stop_playback |-> [modifiers |-> {"Cmd", "Alt"}, trigger |-> "Escape"],
      listener |-> "listening",
      \* per modifier, the kind of the latest event of one of its keys
      last_kind |-> [m \in {"cmd_pressed", "alt_pressed", "ctrl_pressed",
                            "shift_pressed"} |-> NONE] ]

\* count + 1 on a u32: wraps, or panics when the build checks overflow
AddOne(p) ==
    IF p.count < CountMax THEN [ok |-> TRUE, val |-> p.count + 1]
    ELSE [ok |-> ~p.overflow_checks, val |-> 0]

\* Lines 218-222: log "Repeat #{count + 1}" when count > 0, enter the for loop
EnterPass(p) ==
    IF p.count > 0 /\ ~AddOne(p).ok
    THEN [p EXCEPT !.pc = "panicked"]
    ELSE [p EXCEPT !.pc = "event_check", !.idx = 1, !.pass_wait = 0,
                   !.passes = IF @ < PassCap THEN @ + 1 ELSE @,
                   !.pass_waits = p.waits, !.pass_gap = p.gap,
                   !.waits = 0, !.gap = 0,
                   !.entered_after_cancel = @ \/ p.stop_flag]

\* LoopTop with the repeat check off by one (count > repeat_count)
LoopTop_OffByOne(p) ==
    IF p.repeat_count > 0 /\ p.count > p.repeat_count
    THEN [p EXCEPT !.pc = "complete"]
    ELSE IF p.count > 0 /\ p.repeat_interval > 0
    THEN [p EXCEPT !.pc = "wait_check", !.elapsed = 0, !.waits = @ + 1]
    ELSE EnterPass(p)

\* Lines 199-208: the repeat check, then the start of the interval wait
LoopTop(p) ==
    IF p.repeat_count > 0 /\ p.count >= p.repeat_count
    THEN [p EXCEPT !.pc = "complete"]
    ELSE IF p.count > 0 /\ p.repeat_interval > 0
    THEN [p EXCEPT !.pc = "wait_check", !.elapsed = 0, !.waits = @ + 1]
    ELSE EnterPass(p)

\* WaitCheck without the load of stop_flag
WaitCheck_NoFlagCheck(p) ==
    IF p.elapsed < p.repeat_interval
    THEN [p EXCEPT !.pc = "wait_sleep"]
    ELSE EnterPass(p)

\* Lines 209-213: the while condition and the load of stop_flag
WaitCheck(p) ==
    IF p.elapsed < p.repeat_interval
    THEN IF p.stop_flag
         THEN [p EXCEPT !.pc = "stopped_interval"]
         ELSE [p EXCEPT !.pc = "wait_sleep"]
    ELSE EnterPass(p)

SleepDone(p) ==
    [p EXCEPT !.sleeps_after_cancel = IF p.stop_flag THEN @ + 1 ELSE @]

\* Line 214
WaitSleep(p) ==
    [SleepDone(p) EXCEPT !.pc = "wait_check", !.elapsed = @ + PollMs,
                         !.gap = @ + PollMs]

\* EventCheck without the load of stop_flag
EventCheck_NoFlagCheck(p) ==
    IF p.idx > Len(p.events)
    THEN IF AddOne(p).ok
         THEN [p EXCEPT !.pc = "loop", !.count = AddOne(p).val]
         ELSE [p EXCEPT !.pc = "panicked"]
    ELSE [p EXCEPT !.pc = "delay_sleep"]

\* Lines 222-227 and 242: next event or end of pass, the load of stop_flag
EventCheck(p) ==
    IF p.idx > Len(p.events)
    THEN IF AddOne(p).ok
         THEN [p EXCEPT !.pc = "loop", !.count = AddOne(p).val]
         ELSE [p EXCEPT !.pc = "panicked"]
    ELSE IF p.stop_flag
    THEN [p EXCEPT !.pc = "stopped"]
    ELSE [p EXCEPT !.pc = "delay_sleep"]

\* Lines 230-231: the delay is computed and slept
DelaySleep(p) ==
    LET delay == ScaledDelay(p.events[p.idx].delay_ms, p.speed) IN
    [SleepDone(p) EXCEPT !.pc = "simulate",
                         !.slept = @ + delay,
                         !.pass_wait = @ + delay]

Record(trace, e) == IF Len(trace) < TraceCap THEN Append(trace, e) ELSE trace

\* Simulate that returns from do_playback when simulate() reports an error
Simulate_AbortOnError(p, ok) ==
    [p EXCEPT !.pc = IF ok THEN "event_check" ELSE "complete",
              !.idx = @ + 1,
              !.trace = Record(@,
                  [ event_type |-> p.events[p.idx].event_type,
                    waited |-> p.slept ]),
              !.slept = 0,
              !.any_failed = @ \/ ~ok,
              !.emitted_after_cancel = IF p.stop_flag THEN @ + 1 ELSE @,
              !.late_emission = @ \/ (p.stop_flag /\ p.entered_after_cancel)]

\* Lines 232-240: the emission attempt; an Err is logged and ignored
Simulate(p, ok) ==
    [p EXCEPT !.pc = "event_check",
              !.idx = @ + 1,
              !.trace = Record(@,
                  [ event_type |-> p.events[p.idx].event_type,
                    waited |-> p.slept ]),
              !.slept = 0,
              !.any_failed = @ \/ ~ok,
              !.emitted_after_cancel = IF p.stop_flag THEN @ + 1 ELSE @,
              !.late_emission = @ \/ (p.stop_flag /\ p.entered_after_cancel)]

InitPlay ==
    /\ InitSup
    /\ recorder = RecorderOff
    /\ \E events \in SeqsUpTo(EventPool, MaxLen), speed \in Speeds,
          repeat_count \in 0..MaxRepeat, repeat_interval \in IntervalsMs,
          overflow_checks \in BOOLEAN :
          player = InitPlayer(events, speed, repeat_count, repeat_interval,
                              overflow_checks)

\* a step taken while stop_flag is set is counted (up to MaxStepsCounted)
Counted(p, q) ==
    IF p.stop_flag /\ p.steps_after_cancel < MaxStepsCounted
    THEN [q EXCEPT !.steps_after_cancel = @ + 1]
    ELSE q

PlayerStep(p) ==
    CASE p.pc = "loop"        -> { LoopTop(p) }
      [] p.pc = "wait_check"  -> { WaitCheck(p) }
      [] p.pc = "wait_sleep"  -> { WaitSleep(p) }
      [] p.pc = "event_check" -> { EventCheck(p) }
      [] p.pc = "delay_sleep" -> { DelaySleep(p) }
      [] p.pc = "simulate"    -> { Simulate(p, ok) : ok \in BOOLEAN }
      [] OTHER                -> {}

\* the playback thread takes its next step
PlayStep ==
    /\ \E q \in PlayerStep(player) : player' = Counted(player, q)
    /\ UNCHANGED supVars
    /\ UNCHANGED recorder

\* stop_flag.store(true): the listener thread (play.rs 102), once
SetCancel ==
    /\ ~player.stop_flag
    /\ player.pc \notin Terminal
    /\ player' = [player EXCEPT !.stop_flag = TRUE, !.cancel_pc = player.pc]
    /\ UNCHANGED supVars
    /\ UNCHANGED recorder

NextPlay == PlayStep \/ SetCancel

SpecPlay == InitPlay /\ [][NextPlay]_vars

\* the playback thread is scheduled as long as it can run
SpecPlayFair == SpecPlay /\ WF_vars(PlayStep)


(***************************************************************************)
(*                RECORDER  (src/src/record.rs, run_record)                *)
(*                                                                         *)
(* The listener callback and the termination handler both run under the    *)
(* state mutex, so each is one step.                                       *)
(***************************************************************************)

\* KeyMaps::default(), config.rs 38-51
DefaultKeyMaps ==
    [ start_recording |-> [modifiers |-> {"Cmd", "Alt"}, trigger |-> "KeyR"],
      stop_recording  |-> [modifiers |-> {"Cmd", "Alt"}, trigger |-> "Escape"] ]

\* the keys the listener observes here
Keys == {"MetaLeft", "Alt", "KeyR", "Escape"}
ObservedEvents == { [kind |-> k, key |-> key] : k \in {"KeyPress", "KeyRelease"}, key \in Keys }
\* ticks by which SystemTime::now() moves between two observed events: the
\* system clock can be set back, less than a millisecond can pass, or more
ClockMoves == {-1, 1, 2 * TicksPerMs}

\* ModifierOf that does not know the right-hand variants AltGr and MetaRight
ModifierOf_LeftOnly(key) ==
    CASE key \in {"MetaLeft"}                    -> "cmd_pressed"
      [] key \in {"Alt"}                         -> "alt_pressed"
      [] key \in {"ControlLeft", "ControlRight"} -> "ctrl_pressed"
      [] key \in {"ShiftLeft", "ShiftRight"}     -> "shift_pressed"
      [] OTHER                                   -> NONE

\* the match on event.event_type, lines 64-74
ModifierOf(key) ==
    CASE key \in {"MetaLeft", "MetaRight"}       -> "cmd_pressed"
      [] key \in {"Alt", "AltGr"}                -> "alt_pressed"
      [] key \in {"ControlLeft", "ControlRight"} -> "ctrl_pressed"
      [] key \in {"ShiftLeft", "ShiftRight"}     -> "shift_pressed"
      [] OTHER                                   -> NONE

UpdateModifiers(r, event) ==
    IF ModifierOf(event.key) = NONE THEN r
    ELSE [r EXCEPT ![ModifierOf(event.key)] = (event.kind = "KeyPress")]

\* check_modifiers that also wants the unlisted modifiers released
check_modifiers_Exact(r, modifiers) ==
    /\ ("Cmd" \in modifiers <=> r.cmd_pressed)
    /\ ("Alt" \in modifiers <=> r.alt_pressed)
    /\ ("Ctrl" \in modifiers <=> r.ctrl_pressed)
    /\ ("Shift" \in modifiers <=> r.shift_pressed)

\* the closure check_modifiers, lines 77-87
check_modifiers(r, modifiers) ==
    /\ ("Cmd" \in modifiers => r.cmd_pressed)
    /\ ("Alt" \in modifiers => r.alt_pressed)
    /\ ("Ctrl" \in modifiers => r.ctrl_pressed)
    /\ ("Shift" \in modifiers => r.shift_pressed)

\* the destination file: absent, holding a whole encoded sequence, or torn
\* (truncated by File::create and not completely written)
FileAbsent == [state |-> "absent", events |-> << >>]
FileWhole(events) == [state |-> "whole", events |-> events]
FileTorn == [state |-> "torn", events |-> << >>]

\* save_events, lines 138-150: File::create, to_writer, sync_all, each of
\* which can fail
save_events(events, file) ==
    { [ok |-> TRUE,  file |-> FileWhole(events), step |-> "saved"],
      [ok |-> FALSE, file |-> file,              step |-> "create:failed"],
      [ok |-> FALSE, file |-> FileTorn,          step |-> "write:failed"],
      [ok |-> FALSE, file |-> FileWhole(events), step |-> "sync:failed"] }

\* run_record is called with the destination not yet created
InitRecorder(immediate) ==
    [ pc |-> "start",
      immediate |-> immediate,
      keymaps |-> DefaultKeyMaps,
      is_recording |-> FALSE,
      cmd_pressed |-> FALSE, alt_pressed |-> FALSE,
      ctrl_pressed |-> FALSE, shift_pressed |-> FALSE,
      events |-> << >>,
      age |-> 0,              \* SystemTime::now() - last_time, in ticks
      since_append |-> 0,     \* ticks since the last append or the entry into Recording
      span |-> 0,             \* ticks from the entry into Recording to the last append
      file |-> FileAbsent,
      exit_code |-> -1,       \* -1 while the process runs
      left_by |-> NONE,       \* what ended the worker
      last_save |-> NONE,     \* outcome of the latest save_events call
      warned_empty |-> FALSE ]\* the latest save_events call warned "No events captured"

Saved(r, events, s) ==
    [r EXCEPT !.file = s.file, !.last_save = s.step,
              !.warned_empty = (events = << >>)]

\* RunRecordStart that ignores the immediate flag and starts in Recording
RunRecordStart_AlwaysRecording(r) ==
    { IF s.ok
      THEN [Saved(r, << >>, s) EXCEPT !.pc = "listening", !.is_recording = TRUE]
      ELSE [Saved(r, << >>, s) EXCEPT !.pc = "failed", !.exit_code = 1,
                                     !.left_by = "startup_error"]
      : s \in save_events(<< >>, r.file) }

\* Lines 25-57: the file is created, the state built, the handler installed
RunRecordStart(r) ==
    { IF s.ok
      THEN [Saved(r, << >>, s) EXCEPT !.pc = "listening", !.is_recording = r.immediate]
      ELSE [Saved(r, << >>, s) EXCEPT !.pc = "failed", !.exit_code = 1,
                                     !.left_by = "startup_error"]
      : s \in save_events(<< >>, r.file) }

\* Lines 45-57: the Ctrl-C / SIGTERM handler
ctrlc_handler(r) ==
    IF r.is_recording
    THEN { [Saved(r, r.events, s) EXCEPT !.pc = "exited", !.exit_code = 0,
                                          !.left_by = "signal"]
           : s \in save_events(r.events, r.file) }
    ELSE { [r EXCEPT !.pc = "exited", !.exit_code = 0, !.left_by = "signal_armed"] }

\* now.duration_since(last_time).unwrap().as_millis() as u64, line 115:
\* Err, hence a panic, when the clock reads earlier than last_time
DelayMs(age) == IF age < 0 THEN -1 ELSE age \div TicksPerMs

\* a panic in the callback ends the process (abort or unwinding exit status)
Panicked(r) ==
    { [r EXCEPT !.pc = "panicked", !.exit_code = c, !.left_by = "panic"] : c \in {101, 134} }

\* Capture that saves the buffer before it appends the event
Capture_SaveBeforeAppend(r, event) ==
    IF DelayMs(r.age) < 0 THEN Panicked(r)
    ELSE
    LET r2 == [r EXCEPT !.events = Append(@,
                   [event_type |-> << event.kind, event.key >>,
                    delay_ms |-> DelayMs(r.age)]),
                        !.age = 0,
                        !.span = @ + r.since_append,
                        !.since_append = 0]
    IN  { Saved(r2, r.events, s) : s \in save_events(r.events, r2.file) }

\* Capture that takes the event back out of the buffer when the save fails
Capture_DropOnFailure(r, event) ==
    IF DelayMs(r.age) < 0 THEN Panicked(r)
    ELSE
    LET r2 == [r EXCEPT !.events = Append(@,
                   [event_type |-> << event.kind, event.key >>,
                    delay_ms |-> DelayMs(r.age)]),
                        !.age = 0,
                        !.span = @ + r.since_append,
                        !.since_append = 0]
    IN  { IF s.ok THEN Saved(r2, r2.events, s)
          ELSE [Saved(r2, r2.events, s) EXCEPT !.events = r.events]
          : s \in save_events(r2.events, r2.file) }

\* Lines 113-127: the event is appended and the buffer saved
Capture(r, event) ==
    IF DelayMs(r.age) < 0 THEN Panicked(r)
    ELSE
    LET r2 == [r EXCEPT !.events = Append(@,
                   [event_type |-> << event.kind, event.key >>,
                    delay_ms |-> DelayMs(r.age)]),
                        !.age = 0,
                        !.span = @ + r.since_append,
                        !.since_append = 0]
    IN  { Saved(r2, r2.events, s) : s \in save_events(r2.events, r2.file) }

\* callback with a start branch that leaves last_time as it was
callback_NoClockReset(r0, event, move) ==
    LET r1 == [r0 EXCEPT !.age = @ + move,
                         !.since_append = IF r0.is_recording THEN @ + move ELSE @]
        r == UpdateModifiers(r1, event)
        start == r.keymaps.start_recording
        stop == r.keymaps.stop_recording
        is_start == /\ event.kind = "KeyPress" /\ event.key = start.trigger
                    /\ check_modifiers(r, start.modifiers)
        is_stop == /\ event.kind = "KeyPress" /\ event.key = stop.trigger
                   /\ check_modifiers(r, stop.modifiers)
    IN  IF is_start /\ ~r.is_recording
        THEN { [r EXCEPT !.is_recording = TRUE, !.events = << >>,
                         !.since_append = 0, !.span = 0] }
        ELSE IF is_stop /\ r.is_recording
        THEN { [Saved(r, r.events, s) EXCEPT !.pc = "exited", !.exit_code = 0,
                                              !.is_recording = FALSE,
                                              !.left_by = "stop_hotkey"]
               : s \in save_events(r.events, r.file) }
        ELSE IF r.is_recording
        THEN Capture(r, event)
        ELSE { r }

\* Lines 59-128: the listener callback
callback(r0, event, move) ==
    LET r1 == [r0 EXCEPT !.age = @ + move,
                         !.since_append = IF r0.is_recording THEN @ + move ELSE @]
        r == UpdateModifiers(r1, event)
        start == r.keymaps.start_recording
        stop == r.keymaps.stop_recording
        is_start == /\ event.kind = "KeyPress" /\ event.key = start.trigger
                    /\ check_modifiers(r, start.modifiers)
        is_stop == /\ event.kind = "KeyPress" /\ event.key = stop.trigger
                   /\ check_modifiers(r, stop.modifiers)
    IN  IF is_start /\ ~r.is_recording
        THEN { [r EXCEPT !.is_recording = TRUE, !.events = << >>, !.age = 0,
                         !.since_append = 0, !.span = 0] }
        ELSE IF is_stop /\ r.is_recording
        THEN { [Saved(r, r.events, s) EXCEPT !.pc = "exited", !.exit_code = 0,
                                              !.is_recording = FALSE,
                                              !.left_by = "stop_hotkey"]
               : s \in save_events(r.events, r.file) }
        ELSE IF r.is_recording
        THEN Capture(r, event)
        ELSE { r }

\* the file as a process killed inside save_events(events, ..) leaves it:
\* before File::create, truncated and not completely written, or written
save_points(events, file) == { file, FileTorn, FileWhole(events) }

\* SIGKILL (child.kill() of the Supervisor's quit path, bar_app.rs 569-578):
\* the process ends where it is, between two callbacks or inside the save
\* made by the callback or by the termination handler
sigkill(r) ==
    LET dead(q) == [q EXCEPT !.pc = "killed", !.exit_code = 137, !.left_by = "sigkill"]
        appended(event, move) ==
            [r EXCEPT !.events = Append(@, [event_type |-> << event.kind, event.key >>,
                                            delay_ms |-> DelayMs(move)])]
    IN  { dead(r) }
        \cup
        { dead([r EXCEPT !.file = f]) :
            f \in IF r.is_recording THEN save_points(r.events, r.file) ELSE {} }
        \cup
        UNION { { dead([appended(event, move) EXCEPT !.file = f]) :
                    f \in save_points(appended(event, move).events, r.file) } :
                event \in IF r.is_recording /\ Len(r.events) < MaxBuf
                          THEN ObservedEvents ELSE {},
                move \in { m \in ClockMoves : m >= 0 } }

InitRec ==
    /\ InitSup
    /\ player = PlayerOff
    /\ \E immediate \in BOOLEAN : recorder = InitRecorder(immediate)

RecStart ==
    /\ recorder.pc = "start"
    /\ \E r \in RunRecordStart(recorder) : recorder' = r
    /\ UNCHANGED supVars
    /\ UNCHANGED player

\* the listener delivers an observed event to the callback
ObserveEvent(event, move) ==
    /\ recorder.pc = "listening"
    /\ Len(recorder.events) < MaxBuf \/ ~recorder.is_recording
           \/ (event.kind = "KeyPress" /\ event.key = recorder.keymaps.stop_recording.trigger)
    /\ recorder.age + move \in -(MaxAge * TicksPerMs)..(MaxAge * TicksPerMs)
    /\ \E r \in callback(recorder, event, move) :
           /\ Len(r.events) <= MaxBuf
           /\ recorder' = r
    /\ UNCHANGED supVars
    /\ UNCHANGED player

\* SIGTERM or Ctrl-C is delivered to the worker
Terminate ==
    /\ recorder.pc = "listening"
    /\ \E r \in ctrlc_handler(recorder) : recorder' = r
    /\ UNCHANGED supVars
    /\ UNCHANGED player

\* the worker is killed
Kill ==
    /\ recorder.pc = "listening"
    /\ \E r \in sigkill(recorder) : recorder' = r
    /\ UNCHANGED supVars
    /\ UNCHANGED player

NextRec ==
    \/ RecStart
    \/ \E event \in ObservedEvents, move \in ClockMoves : ObserveEvent(event, move)
    \/ Terminate
    \/ Kill

SpecRec == InitRec /\ [][NextRec]_vars


(***************************************************************************)
(*        PLAYBACK WORKER  (src/src/play.rs, run_play, immediate)          *)
(*                                                                         *)
(* The playback thread runs do_playback and then exits the process; the    *)
(* main thread runs the listener, whose callback tracks the modifiers and, *)
(* on the stop hotkey, stores stop_flag and exits the process.             *)
(***************************************************************************)

ModifierFlags == {"cmd_pressed", "alt_pressed", "ctrl_pressed", "shift_pressed"}

\* every key the modifier match names, and two it does not
ListenKeys ==
    {"MetaLeft", "MetaRight", "Alt", "AltGr", "ControlLeft", "ControlRight",
     "ShiftLeft", "ShiftRight", "Escape", "KeyA"}
ListenEvents ==
    { [kind |-> k, key |-> key] : k \in {"KeyPress", "KeyRelease"}, key \in ListenKeys }

\* keymaps.stop_playback as a workspace may configure it
StopCombos ==
    { [modifiers |-> {"Cmd", "Alt"}, trigger |-> "Escape"],
      [modifiers |-> {}, trigger |-> "Escape"],
      [modifiers |-> {"Ctrl", "Shift"}, trigger |-> "KeyA"] }

\* the keys of each logical modifier
VariantKeys ==
    [ cmd_pressed   |-> {"MetaLeft", "MetaRight"},
      alt_pressed   |-> {"Alt", "AltGr"},
      ctrl_pressed  |-> {"ControlLeft", "ControlRight"},
      shift_pressed |-> {"ShiftLeft", "ShiftRight"} ]

\* the kind of the latest event of each modifier's keys, `event` included
LastKind(p, event) ==
    [m \in ModifierFlags |->
        IF event.key \in VariantKeys[m] THEN event.kind ELSE p.last_kind[m]]

\* Lines 70-105: the listener callback of run_play
stop_callback(p, event) ==
    LET q == [UpdateModifiers(p, event) EXCEPT !.last_kind = LastKind(p, event)] IN
    IF /\ event.kind = "KeyPress"
       /\ event.key = q.stop_playback.trigger
       /\ check_modifiers(q, q.stop_playback.modifiers)
    THEN [q EXCEPT !.stop_flag = TRUE, !.listener = "exiting",
                   !.cancel_pc = IF p.stop_flag THEN @ ELSE p.pc]
    ELSE q

InitListen ==
    /\ InitSup
    /\ recorder = RecorderOff
    /\ \E combo \in StopCombos, repeat_count \in {0, 1} :
          player = [InitPlayer(<< [event_type |-> "KeyPress(KeyA)", delay_ms |-> 0] >>,
                               [num |-> 1, den |-> 1], repeat_count, 0, FALSE)
                        EXCEPT !.stop_playback = combo]

\* the playback thread takes a step of do_playback
ListenPlayStep ==
    /\ player.pc \notin Terminal \cup {"exited"}
    /\ Len(player.trace) < TraceCap
    /\ \E q \in PlayerStep(player) : player' = Counted(player, q)
    /\ UNCHANGED supVars
    /\ UNCHANGED recorder

\* the listener delivers a key event to the callback
ListenEvent(event) ==
    /\ player.pc # "exited"
    /\ player.listener = "listening"
    /\ player' = stop_callback(player, event)
    /\ UNCHANGED supVars
    /\ UNCHANGED recorder

\* process::exit(0): after do_playback returned (line 47) or in the
\* callback after the store (line 103)
ProcessExit ==
    /\ player.pc # "exited"
    /\ player.pc \in Terminal \/ player.listener = "exiting"
    /\ player' = [player EXCEPT !.pc = "exited"]
    /\ UNCHANGED supVars
    /\ UNCHANGED recorder

NextListen ==
    \/ ListenPlayStep
    \/ \E event \in ListenEvents : ListenEvent(event)
    \/ ProcessExit

SpecListen == InitListen /\ [][NextListen]_vars

\* `events` concatenated n times
RECURSIVE Repeated(_, _)
Repeated(events, n) == IF n = 0 THEN << >> ELSE events \o Repeated(events, n - 1)

\* the kinds of the emission attempts, in order
Emitted(p) == [i \in 1..Len(p.trace) |-> p.trace[i].event_type]

Kinds(events) == [i \in 1..Len(events) |-> events[i].event_type]

\* C5: once the cancel flag is set, wherever the playback loop is (the sleep
\* of the scaled delay before an event included), do_playback makes no
\* further emission.
C5_NoEmissionAfterCancel ==
    player.emitted_after_cancel = 0

\* C6: for every event sequence (the empty one included), every repeat_count
\* (0 included) and every interval (0 included), a playback whose cancel flag
\* is set eventually returns.
C6_CancelTakesEffect ==
    (player.pc # "off" /\ player.stop_flag) ~> (player.pc \in Terminal)

\* C7: after a cancel flag set during the wait between two passes,
\* do_playback makes no further emission, finishes at most one more polling
\* sleep (PollMs, no more than 100 ms) and is over within seven steps (the
\* poll that was sleeping, the passes over an empty sequence up to the next
\* load of the flag).
C7_CancelDuringIntervalWait ==
    (player.cancel_pc \in {"wait_check", "wait_sleep"})
    => /\ player.emitted_after_cancel = 0
       /\ player.sleeps_after_cancel <= 1
       /\ PollMs <= 100
       /\ player.steps_after_cancel <= 7
       /\ (player.steps_after_cancel = 7 => player.pc \in Terminal)

C7_Witness ==
    /\ player.cancel_pc = "wait_sleep"
    /\ player.pc = "stopped_interval"
    /\ player.sleeps_after_cancel = 1

\* C8: with the cancel flag never set and repeat_count = N > 0, do_playback
\* terminates, and on completion the emissions are exactly the event sequence
\* repeated N times, in order.
C8_FiniteRepeatTrace ==
    /\ [](  (player.pc = "complete" /\ ~player.stop_flag /\ player.repeat_count > 0)
            => Emitted(player) = Repeated(Kinds(player.events), player.repeat_count))
    /\ (player.pc # "off" /\ player.repeat_count > 0)
            => <>(player.stop_flag \/ player.pc = "complete")

C8_Witness ==
    /\ player.pc = "complete" /\ ~player.stop_flag
    /\ player.repeat_count = MaxRepeat
    /\ Len(player.events) = MaxLen
    /\ player.events[1] # player.events[2]

\* C9: with repeat_count = 0 the passes never end of themselves, at the limit
\* of the pass counter included: do_playback leaves the loop only on a cancel.
C9_InfiniteRepeat ==
    (player.pc # "off" /\ player.repeat_count = 0 /\ player.pc \in Terminal)
    => (player.stop_flag /\ player.pc \in {"stopped", "stopped_interval"})

\* C10: when the recording worker leaves Recording by exiting, on the stop
\* hotkey or on a termination signal, the destination file holds exactly the
\* buffered sequence (the empty one included, written with a warning).
C10_ExitPersistsBuffer ==
    (recorder.pc = "exited" /\ recorder.left_by \in {"stop_hotkey", "signal"})
    => /\ recorder.file = FileWhole(recorder.events)
       /\ (recorder.events = << >> => recorder.warned_empty)

(***************************************************************************)
(*                         CLAIMS  C11 - C20                               *)
(***************************************************************************)

\* what the callback leaves for observed event `event` after clock move `move`
CallbackOps(event, move) ==
    IF recorder.pc = "listening" THEN callback(recorder, event, move) ELSE {}

\* `event` is a key-press of the combo's trigger with every modifier of the
\* combo held, the event itself counted
Satisfies(r0, event, combo) ==
    /\ event.kind = "KeyPress"
    /\ event.key = combo.trigger
    /\ check_modifiers(UpdateModifiers(r0, event), combo.modifiers)

IsControlHotkey(r0, event) ==
    \/ Satisfies(r0, event, r0.keymaps.start_recording)
    \/ Satisfies(r0, event, r0.keymaps.stop_recording)

EventTypes(events) == [i \in 1..Len(events) |-> events[i].event_type]

\* C11: while Recording, an observed event that is neither control hotkey is
\* appended, and a key-press satisfying the start or the stop combo is not:
\* the buffer and the persisted sequence stay as they were (a start-hotkey
\* press arriving while already Recording included).
C11_HotkeysNeverAppended ==
    (recorder.pc = "listening" /\ recorder.is_recording)
    => \A event \in ObservedEvents, move \in ClockMoves :
       \A r \in CallbackOps(event, move) :
           r.pc # "panicked"
           => IF IsControlHotkey(recorder, event)
              THEN /\ EventTypes(r.events) = EventTypes(recorder.events)
                   /\ r.file \in {recorder.file, FileWhole(r.events), FileTorn}
              ELSE EventTypes(r.events) =
                       Append(EventTypes(recorder.events), << event.kind, event.key >>)

\* C12: the armed worker enters Recording exactly on a key-press of the start
\* trigger with all start modifiers held; the triggering event is not
\* appended, the buffer is empty afterwards and the delay clock restarts at
\* the transition, from which the first appended event's delay is measured.
C12_ArmedToRecording ==
    /\ (recorder.pc = "listening" /\ ~recorder.is_recording)
       => \A event \in ObservedEvents, move \in ClockMoves :
          \A r \in CallbackOps(event, move) :
              /\ r.is_recording <=> Satisfies(recorder, event, recorder.keymaps.start_recording)
              /\ r.is_recording => (r.pc = "listening" /\ r.events = << >> /\ r.age = 0)
    /\ (recorder.pc = "listening" /\ recorder.is_recording /\ recorder.events = << >>)
       => \A event \in ObservedEvents, move \in ClockMoves :
          \A r \in CallbackOps(event, move) :
              Len(r.events) = 1
              => r.events[1].delay_ms = (recorder.since_append + move) \div TicksPerMs

C12_Witness ==
    /\ recorder.pc = "listening" /\ ~recorder.is_recording /\ recorder.age > 0
    /\ \E move \in ClockMoves :
       \E r \in CallbackOps([kind |-> "KeyPress", key |-> "KeyR"], move) : r.is_recording

\* the four modifier flags of RecorderState
Modifiers(r) == << r.cmd_pressed, r.alt_pressed, r.ctrl_pressed, r.shift_pressed >>

\* C13: the worker starts in Recording iff it was invoked with the immediate
\* flag; while armed the buffer is empty and the file is as created, no
\* event but the start hotkey changes anything except the modifier flags,
\* and a stop-hotkey press neither ends the process nor changes the state.
C13_ArmedUntilStart ==
    /\ recorder.pc = "start"
       => \A r \in RunRecordStart(recorder) :
              r.pc = "listening" => (r.is_recording <=> recorder.immediate)
    /\ (recorder.pc = "listening" /\ ~recorder.is_recording)
       => /\ recorder.events = << >>
          /\ recorder.file = FileWhole(<< >>)
          /\ \A event \in ObservedEvents, move \in ClockMoves :
             \A r \in CallbackOps(event, move) :
                 ~Satisfies(recorder, event, recorder.keymaps.start_recording)
                 => /\ r = [UpdateModifiers(recorder, event) EXCEPT !.age = @ + move]
                    /\ (Satisfies(recorder, event, recorder.keymaps.stop_recording)
                        => Modifiers(r) = Modifiers(recorder))

C13_Witness ==
    /\ recorder.pc = "listening" /\ ~recorder.is_recording
    /\ Satisfies(recorder, [kind |-> "KeyPress", key |-> "Escape"],
                 recorder.keymaps.stop_recording)

RECURSIVE SumDelays(_)
SumDelays(events) ==
    IF events = << >> THEN 0
    ELSE events[1].delay_ms + SumDelays(Tail(events))

\* C14: every event observed while Recording (the stop hotkey apart) is
\* appended with a delay_ms >= 0 that is the time since the previous append,
\* or since the entry into Recording, in whole milliseconds; so the delays of
\* the buffer add up to the time from the entry into Recording to the last
\* append, to within the millisecond each delay drops.
C14_DelayFidelity ==
    /\ \A i \in 1..Len(recorder.events) : recorder.events[i].delay_ms >= 0
    /\ SumDelays(recorder.events) * TicksPerMs <= recorder.span
    /\ recorder.span < (SumDelays(recorder.events) + Len(recorder.events)) * TicksPerMs
           \/ recorder.events = << >>
    /\ (recorder.pc = "listening" /\ recorder.is_recording)
       => \A event \in ObservedEvents, move \in ClockMoves :
          \A r \in CallbackOps(event, move) :
              ~Satisfies(recorder, event, recorder.keymaps.stop_recording)
              => /\ Len(r.events) = Len(recorder.events) + 1
                 /\ r.events[Len(r.events)].delay_ms * TicksPerMs <= recorder.since_append + move
                 /\ recorder.since_append + move
                        < (r.events[Len(r.events)].delay_ms + 1) * TicksPerMs

\* C15: a failed write of the file during recording neither stops capture
\* nor loses data: whatever the saves before it did, an event observed while
\* Recording leaves the worker Recording with the buffer extended by that
\* event, and a save that succeeds leaves the whole buffer in the file.
C15_WriteFailureKeepsBuffer ==
    (recorder.pc = "listening" /\ recorder.is_recording)
    => \A event \in ObservedEvents, move \in ClockMoves :
       \A r \in CallbackOps(event, move) :
           (r.pc # "panicked"
               /\ ~Satisfies(recorder, event, recorder.keymaps.stop_recording))
           => /\ r.pc = "listening" /\ r.is_recording
              /\ Len(r.events) = Len(recorder.events) + 1
              /\ SubSeq(r.events, 1, Len(recorder.events)) = recorder.events
              /\ r.events[Len(r.events)].event_type = << event.kind, event.key >>
              /\ r.last_save = "saved" => r.file = FileWhole(r.events)

C15_Witness ==
    /\ recorder.pc = "listening" /\ recorder.is_recording
    /\ recorder.last_save \in {"create:failed", "write:failed"}
    /\ Len(recorder.events) = 1
    /\ recorder.file # FileWhole(recorder.events)
    /\ \E event \in ObservedEvents, move \in ClockMoves :
       \E r \in CallbackOps(event, move) :
           r.last_save = "saved" /\ Len(r.events) = 2 /\ r.file = FileWhole(r.events)

\* C16: persisting is atomic with respect to abrupt termination: whenever
\* the worker is killed, between the steps of a save included, the file
\* holds a whole sequence, never an empty or partly written one.
C16_SaveAtomicUnderKill ==
    recorder.left_by = "sigkill" => recorder.file.state = "whole"

\* the latch of hotkey `id` in AppState
Latch(state, id) ==
    CASE id = "record"   -> state.last_record_hotkey_pressed
      [] id = "playback" -> state.last_playback_hotkey_pressed
      [] id = "load"     -> state.last_load_hotkey_pressed

\* world w with the three latches as they are in the current state
SameLatches(w) ==
    [w EXCEPT !.state.last_record_hotkey_pressed = app_state.last_record_hotkey_pressed,
              !.state.last_playback_hotkey_pressed = app_state.last_playback_hotkey_pressed,
              !.state.last_load_hotkey_pressed = app_state.last_load_hotkey_pressed]

\* C17: for each of the record, playback and load hotkeys, an event does
\* something beyond the latch only if it is a Pressed event arriving with the
\* latch released; Pressed sets the latch, Released releases it and does
\* nothing else, and the latches of the other hotkeys are left alone.
C17_HotkeyEdgeOnce ==
    Running =>
    \A id \in HotkeyIds, pressed \in BOOLEAN :
    \A w \in handle_hotkey(World, id, pressed) :
        /\ Latch(w.state, id) = pressed
        /\ \A other \in HotkeyIds \ {id} : Latch(w.state, other) = Latch(app_state, other)
        /\ SameLatches(w) # Enter(World, "handle_hotkey")
               => (pressed /\ ~Latch(app_state, id))

C17_Witness ==
    /\ Running
    /\ app_state.last_playback_hotkey_pressed
    /\ app_state.pending_playback # NONE
    /\ app_state.playback_process = NONE

\* C18: after any sequence of observed events each of the four modifier
\* flags is true iff the latest press or release of one of its variant keys
\* was a press (false when there was none); the callback always returns, and
\* an event of another key leaves the four flags as they were.
C18_ModifierTracking ==
    /\ \A m \in ModifierFlags : player[m] <=> (player.last_kind[m] = "KeyPress")
    /\ (player.pc # "exited" /\ player.listener = "listening")
       => \A event \in ListenEvents :
              (\A m \in ModifierFlags : event.key \notin VariantKeys[m])
              => \A m \in ModifierFlags : stop_callback(player, event)[m] = player[m]

C18_Witness ==
    /\ player.last_kind["alt_pressed"] = "KeyRelease"
    /\ player.last_kind["cmd_pressed"] = "KeyPress"
    /\ player.last_kind["ctrl_pressed"] = "KeyPress"
    /\ player.last_kind["shift_pressed"] = NONE
    /\ player.listener = "listening"

\* C19: the stop combo fires on an event iff the event is a key-press of the
\* combo's trigger and every modifier the combo lists is held, the event's
\* own modifier update counted; a release of the trigger never fires, other
\* held modifiers do not prevent it, and the test leaves the flags as the
\* modifier update set them.
C19_ComboFires ==
    (player.pc # "exited" /\ player.listener = "listening")
    => \A event \in ListenEvents :
       LET q == stop_callback(player, event)
           held(m) == LastKind(player, event)[m] = "KeyPress"
           listed == { m \in ModifierFlags :
                         \/ m = "cmd_pressed" /\ "Cmd" \in player.stop_playback.modifiers
                         \/ m = "alt_pressed" /\ "Alt" \in player.stop_playback.modifiers
                         \/ m = "ctrl_pressed" /\ "Ctrl" \in player.stop_playback.modifiers
                         \/ m = "shift_pressed" /\ "Shift" \in player.stop_playback.modifiers }
       IN  /\ (q.listener = "exiting")
               <=> /\ event.kind = "KeyPress"
                   /\ event.key = player.stop_playback.trigger
                   /\ \A m \in listed : held(m)
           /\ q.listener = "exiting" => q.stop_flag
           /\ \A m \in ModifierFlags : q[m] = held(m)

C19_Witness ==
    /\ player.listener = "exiting"
    /\ player.stop_playback.modifiers = {"Ctrl", "Shift"}
    /\ player.cmd_pressed /\ player.ctrl_pressed /\ player.shift_pressed

\* the UI state of an AppState, by precedence
UiState(state) ==
    IF state.is_recording THEN "Recording"
    ELSE IF state.playback_process # NONE THEN "Playing"
    ELSE IF state.pending_playback # NONE THEN "Loaded"
    ELSE "Idle"

\* C20: the menu update_menu_state derives from AppState shows the UI state
\* chosen by precedence Recording > Playing > Loaded > Idle: Record is
\* enabled only in Idle and, as "Stop", in Recording; Play only in Loaded
\* and, as "Stop", in Playing; Load only in Idle and, as "Unload", in Loaded;
\* and the icon is that state's icon.
C20_MenuFollowsUiState ==
    LET ui == UiState(app_state)
        shown == update_menu_state(World).menu
    IN  /\ shown.recording_enabled <=> ui \in {"Idle", "Recording"}
        /\ shown.recording_text = (IF ui = "Recording" THEN "Stop" ELSE "Record")
        /\ shown.playback_enabled <=> ui \in {"Loaded", "Playing"}
        /\ shown.playback_text = (IF ui = "Playing" THEN "Stop" ELSE "Play")
        /\ shown.load_enabled <=> ui \in {"Idle", "Loaded"}
        /\ shown.load_text = (IF ui = "Loaded" THEN "Unload" ELSE "Load")
        /\ shown.icon = (CASE ui = "Recording" -> "icon_recording"
                           [] ui = "Playing" -> "icon_playing"
                           [] ui = "Loaded" -> "icon_armed"
                           [] OTHER -> "icon_idle")
        /\ update_menu_state(World).state = app_state

\* a recording and a playback handle are both held, a recording is selected,
\* and the menu was refreshed in that state: precedence decides
C20_Witness ==
    /\ app_state.is_recording
    /\ app_state.playback_process # NONE
    /\ app_state.pending_playback # NONE
    /\ menu = MenuRecording

(***************************************************************************)
(*                         CLAIMS  C21 - C30                               *)
(***************************************************************************)

\* what a request to toggle recording leaves behind: a press of the record
\* hotkey with its latch released, or the Record menu click at the head of
\* the proxy queue
RecordRequests ==
    IF ~Running THEN {}
    ELSE (IF ~app_state.last_record_hotkey_pressed
          THEN handle_hotkey(World, "record", TRUE) ELSE {})
         \cup
         (IF proxy_queue # << >> /\ Head(proxy_queue) = "recording"
          THEN handle_menu_event(World, "recording") ELSE {})

\* the spawn attempt of the operation that left w failed
SpawnFailed(w) == \E i \in 1..Len(w.spawns) : ~w.spawns[i].ok

\* C21: a request to start recording (record hotkey or Record menu item)
\* made while nothing is being recorded and no playback handle is held
\* leaves, unless the spawn itself fails, the Recording state: is_recording
\* set, the loaded selection cleared, the temporary path stored, exactly one
\* `record <path> --immediate` worker spawned and its handle stored.
C21_StartRecording ==
    \A w \in RecordRequests :
        (~app_state.is_recording /\ app_state.playback_process = NONE)
        => \/ SpawnFailed(w)
           \/ /\ w.state.is_recording
              /\ w.state.pending_playback = NONE
              /\ w.state.current_recording_path = TempPath
              /\ w.state.recording_process = RecChild
              /\ Len(w.spawns) = 1
              /\ w.spawns[1].kind = "record"
              /\ w.spawns[1].path = TempPath
              /\ w.spawns[1].immediate
              /\ w.menu = MenuRecording

\* C22: when the spawn attempted by toggle_recording or toggle_playback
\* fails, is_recording, the two worker handles, current_recording_path and
\* the loaded selection are after the call what they were before it, and so
\* is the UI state derived from them.
C22_SpawnFailureReverts ==
    \A w \in Ops :
        SpawnFailed(w)
        => /\ SameSession(w.state, app_state)
           /\ UiState(w.state) = UiState(app_state)

\* position of the first step of `log` that is in `steps` (0 when none is)
FirstStep(log, steps) ==
    IF \E i \in 1..Len(log) : log[i] \in steps
    THEN CHOOSE i \in 1..Len(log) :
            /\ log[i] \in steps
            /\ \A j \in 1..(i - 1) : log[j] \notin steps
    ELSE 0

\* the steps of the stop protocol: SIGTERM through `kill -15` is the
\* cooperative signal (the worker's handler saves and exits), child.kill()
\* is the stronger one
CooperativeSignal == {"sigterm", "sigterm:failed"}
PollOutcome == {"poll:exited", "poll:timeout"}
StrongerSignal == {"kill"}

\* C23: stopping a recording whose worker is still running follows the
\* order signal, poll, escalation: the cooperative stop signal is sent
\* before the bounded poll for a voluntary exit, the stronger signal is sent
\* only after that poll has timed out, and never to a worker that exited
\* during the poll.
C23_StopProtocolOrder ==
    \A w \in Ops :
        LET sent == FirstStep(w.op_log, CooperativeSignal)
            polled == FirstStep(w.op_log, PollOutcome)
            strong == FirstStep(w.op_log, StrongerSignal)
        IN  /\ polled # 0 => (sent # 0 /\ sent < polled)
            /\ strong # 0 => (polled # 0 /\ polled < strong
                                /\ w.op_log[polled] = "poll:timeout")

\* C24: a toggle_recording made in the Recording state completes, and when
\* it has returned the recording worker is no longer running,
\* recording_process is None and is_recording is false, whatever the worker
\* does (exits on its own, exits on the signal, does not react).
C24_StopCompletes ==
    \A w \in Ops :
        (Invokes(w, "handle_toggle_recording") /\ app_state.is_recording)
        => /\ ~w.blocked
           /\ ~w.state.is_recording
           /\ w.state.recording_process = NONE
           /\ w.rec_worker # "running"

\* step `step` was taken by the operation that left w
Took(w, step) == \E i \in 1..Len(w.op_log) : w.op_log[i] = step

\* what child.wait() returning leaves behind (the rest of the stop)
WaitOps ==
    IF blocked /\ rec_worker = "exited"
    THEN StopTail(Log([World EXCEPT !.blocked = FALSE, !.rec_worker = "none"],
                      "wait:exited"))
    ELSE {}

\* the operations that reached the save dialog of a stopped recording
SaveOps ==
    { w \in Ops \cup WaitOps :
        Took(w, "dialog:picked") \/ Took(w, "dialog:cancelled") }

PlaybackSettings(state) ==
    << state.playback_speed, state.repeat_count, state.repeat_interval >>

\* C26: toggle_playback reached while no playback handle is held:
\* - nothing loaded: no process is spawned, the session fields of AppState
\*   and both workers are as before;
\* - a recording loaded: exactly one `play` spawn is attempted, on the
\*   loaded path, with the speed, repeat count and interval AppState holds
\*   at that moment; when it succeeds the handle is stored and the worker
\*   runs with these arguments; the selection is unchanged.
\* The three settings are the defaults until a settings-applied event
\* stores its own, and no other operation changes them.
C26_TogglePlaybackStart ==
    /\ PlaybackSettings(app_state)
          \in { PlaybackSettings(InitAppState) }
              \cup { << s.speed, s.repeat, s.interval >> : s \in SettingsMessages }
    /\ \A w \in Ops :
          /\ ~Invokes(w, "handle_settings_applied")
                => PlaybackSettings(w.state) = PlaybackSettings(app_state)
          /\ (Invokes(w, "handle_toggle_playback") /\ app_state.playback_process = NONE)
             => IF app_state.pending_playback = NONE
                THEN /\ w.spawns = << >>
                     /\ SameSession(w.state, app_state)
                     /\ w.play_worker = play_worker
                     /\ w.rec_worker = rec_worker
                ELSE /\ Len(w.spawns) = 1
                     /\ w.spawns[1].kind = "play"
                     /\ w.spawns[1].path = app_state.pending_playback
                     /\ << w.spawns[1].speed, w.spawns[1].repeat,
                           w.spawns[1].interval >> = PlaybackSettings(w.state)
                     /\ w.state.pending_playback = app_state.pending_playback
                     /\ IF w.spawns[1].ok
                        THEN /\ w.state.playback_process = PlayChild
                             /\ w.play_worker = "running"
                             /\ w.play_args.path = app_state.pending_playback
                             /\ << w.play_args.speed, w.play_args.repeat,
                                   w.play_args.interval >> = PlaybackSettings(w.state)
                        ELSE w.state.playback_process = NONE
    /\ \A s \in SettingsMessages :
          (Running /\ settings_window)
          => \A w \in handle_settings_applied(World, s) :
                PlaybackSettings(w.state) = << s.speed, s.repeat, s.interval >>

\* a playback worker runs with settings that a settings-applied event stored
C26_Witness ==
    /\ play_worker = "running"
    /\ play_args.path \in Files
    /\ play_args.speed = 2 /\ play_args.repeat = 0 /\ play_args.interval = 1

\* C27: toggle_playback reached while a playback handle is held kills that
\* worker and waits for it: afterwards the worker is not running,
\* playback_process is None, nothing was spawned, the loaded selection is
\* what it was, and the state derived from AppState is Loaded.
C27_TogglePlaybackStop ==
    \A w \in Ops :
        (Invokes(w, "handle_toggle_playback") /\ app_state.playback_process # NONE)
        => /\ w.state.playback_process = NONE
           /\ w.play_worker = "none"
           /\ w.spawns = << >>
           /\ w.state.pending_playback = app_state.pending_playback
           /\ UiState(w.state) = "Loaded"
           /\ w.menu = MenuLoaded

\* C28: the status poll returns without waiting and changes state only for
\* a playback worker that has exited or whose status cannot be read: then
\* the handle is cleared, nothing else of AppState changes, and the menu is
\* recomputed from the new AppState.  With the worker still running, or
\* with no playback handle, AppState (the handle included), the menu and
\* the workers are exactly as before.
C28_PollFrame ==
    Running =>
    \A w \in PollOps :
        /\ ~w.blocked
        /\ w.spawns = << >>
        /\ w.rec_worker = rec_worker
        /\ w.fs = fs
        /\ IF app_state.playback_process # NONE
              /\ (Took(w, "try_wait:exited") \/ Took(w, "try_wait:error"))
           THEN /\ w.state = [app_state EXCEPT !.playback_process = NONE]
                /\ w.menu = update_menu_state(w).menu
                /\ Took(w, "try_wait:exited") => play_worker = "exited"
           ELSE /\ w.state = app_state
                /\ w.menu = menu
                /\ w.play_worker = play_worker
                /\ w.play_args = play_args
                /\ app_state.playback_process # NONE => play_worker = "running"

\* a poll could not read the status of a running playback worker and
\* cleared its handle
C28_Witness ==
    /\ app_state.playback_process = NONE
    /\ play_worker = "running"
    /\ ~exited

\* C29: in the Supervisor no operation spawns a process, waits for a child
\* or shows a file dialog while it holds the AppState lock, and no handler
\* locks the mutex again while it holds it.
C29_LockDiscipline ==
    \A w \in Ops \cup WaitOps : w.held = {}

\* C30: an emission that fails does not end or alter the run.  Whatever
\* attempts have failed so far,
\* - the attempts made are the events in order, pass after pass, none
\*   skipped or repeated;
\* - within a pass of a finite playback their number is that of the passes
\*   done times the length of the sequence plus the position in the pass;
\* - a failing attempt leaves do_playback where a succeeding one leaves it;
\* - an uncancelled finite playback that completes has attempted the whole
\*   sequence repeat_count times.
C30_EmissionFailureNotFatal ==
    player.pc # "off" =>
    LET n == Len(player.events) IN
    /\ \A i \in 1..Len(player.trace) :
          player.trace[i].event_type = player.events[((i - 1) % n) + 1].event_type
    /\ (player.repeat_count > 0
            /\ player.pc \in {"event_check", "delay_sleep", "simulate"})
          => Len(player.trace) = player.count * n + player.idx - 1
    /\ player.pc = "simulate"
          => [Simulate(player, FALSE) EXCEPT !.any_failed = player.any_failed]
                = Simulate(player, TRUE)
    /\ (player.pc = "complete" /\ ~player.stop_flag /\ player.repeat_count > 0)
          => Emitted(player) = Repeated(Kinds(player.events), player.repeat_count)

\* a finite playback of the longest sequence completed, uncancelled, with
\* failed emissions
C30_Witness ==
    /\ player.pc = "complete"
    /\ player.any_failed
    /\ ~player.stop_flag
    /\ player.repeat_count = MaxRepeat
    /\ Len(player.events) = MaxLen
    /\ Len(player.trace) = MaxRepeat * MaxLen

(***************************************************************************)
(*      RECORDING FILE  (save_events, src/src/record.rs 138-150, and the   *)
(*      load of run_play, src/src/play.rs 15-21, and of play_macro,        *)
(*      src/src-tauri/src/lib.rs 59-75)                                    *)
(*                                                                         *)
(* The file is the serde_json text of Vec<SerializableEvent>.  An event    *)
(* is [kind, payload, delay_ms]; the payload of MouseMove is two f64.      *)
(* An f64 is one of three kinds: "short" (its shortest decimal has few     *)
(* digits), "long" (its shortest decimal has 17 significant digits) and    *)
(* "nan" (not finite); v tells the values of a kind apart, neighbours      *)
(* differing by one.                                                       *)
(***************************************************************************)

F64Short == [kind |-> "short", v |-> 100]
F64Long == [kind |-> "long", v |-> 7]
F64NaN == [kind |-> "nan", v |-> 0]

\* one event of every kind of SerializableEventType (event.rs 11-19), the
\* pointer position with each kind of coordinate
CodecEvents ==
    { [kind |-> "KeyPress", payload |-> << "KeyA" >>, delay_ms |-> 0],
      [kind |-> "KeyRelease", payload |-> << "KeyA" >>, delay_ms |-> 75],
      [kind |-> "ButtonPress", payload |-> << "Left" >>, delay_ms |-> 3],
      [kind |-> "ButtonRelease", payload |-> << "Left" >>, delay_ms |-> 1],
      [kind |-> "Wheel", payload |-> << -1, 1 >>, delay_ms |-> 2] }
    \cup
    { [kind |-> "MouseMove", payload |-> << x, F64Short >>, delay_ms |-> 16] :
        x \in {F64Short, F64Long, F64NaN} }

\* serde_json writes a finite f64 as its shortest decimal and a non-finite
\* one as null
JsonOfF64(x) ==
    IF x.kind = "nan" THEN [t |-> "null"] ELSE [t |-> "number", text |-> x]

\* serde_json reads an f64: null is a type error; a long decimal is read
\* exactly with the float_roundtrip feature and to the value or a neighbour
\* without it
ParseF64(tok, float_roundtrip) ==
    IF tok.t # "number" THEN {}
    ELSE IF tok.text.kind = "long" /\ ~float_roundtrip
    THEN { tok.text, [tok.text EXCEPT !.v = @ + 1] }
    ELSE { tok.text }

\* Serialize for SerializableEvent: the externally tagged event_type and
\* the delay
EncodeEvent(e) ==
    [ tag |-> e.kind,
      fields |-> IF e.kind = "MouseMove"
                 THEN << JsonOfF64(e.payload[1]), JsonOfF64(e.payload[2]) >>
                 ELSE [i \in 1..Len(e.payload) |-> [t |-> "value", text |-> e.payload[i]]],
      delay_ms |-> [t |-> "number", text |-> e.delay_ms] ]

\* serde_json::to_writer(&file, events), record.rs 145
Encode(events) == [i \in 1..Len(events) |-> EncodeEvent(events[i])]

\* Deserialize for SerializableEvent: the events an object can be read as
\* (none when it is rejected)
DecodeEvent(j, float_roundtrip) ==
    IF j.tag = "MouseMove"
    THEN { [kind |-> j.tag, payload |-> << x, y >>, delay_ms |-> j.delay_ms.text] :
             x \in ParseF64(j.fields[1], float_roundtrip),
             y \in ParseF64(j.fields[2], float_roundtrip) }
    ELSE { [kind |-> j.tag,
            payload |-> [i \in 1..Len(j.fields) |-> j.fields[i].text],
            delay_ms |-> j.delay_ms.text] }

\* serde_json::from_reader(file), play.rs 20: the sequences the text can be
\* read as; none when an element is rejected
Decode(json, float_roundtrip) ==
    { s \in [1..Len(json) -> UNION { DecodeEvent(json[i], float_roundtrip) :
                                        i \in 1..Len(json) }] :
        \A i \in 1..Len(json) : s[i] \in DecodeEvent(json[i], float_roundtrip) }

\* a recording is saved by the recorder, then loaded by `entry`
InitLoader(s, float_roundtrip, entry) ==
    [ pc |-> "save",
      s |-> s,                          \* the sequence save_events is given
      float_roundtrip |-> float_roundtrip,  \* serde_json feature of the build
      entry |-> entry,                  \* "run_play" or "play_macro"
      file |-> FileAbsent,
      events |-> << >>,                 \* the Vec the player decoded
      result |-> NONE,                  \* Err once the load has failed
      thread_started |-> FALSE,         \* thread::spawn of the playback
      hook_installed |-> FALSE,         \* rdev::listen
      attempts |-> 0 ]                  \* simulate() calls made

\* save_events(s, path): the file it leaves, whatever it returns
LoaderSave(p) ==
    { [p EXCEPT !.pc = "load", !.file = r.file] : r \in save_events(p.s, p.file) }

\* run_play that starts the playback thread before it loads the file
RunPlayLoad_ThreadFirst(p) ==
    IF p.file.state = "absent"
    THEN { [p EXCEPT !.pc = "failed", !.result = "Err", !.thread_started = TRUE] }
    ELSE IF p.file.state = "torn"
    THEN { [p EXCEPT !.pc = "failed", !.result = "Err", !.thread_started = TRUE] }
    ELSE LET read == Decode(Encode(p.file.events), p.float_roundtrip) IN
         IF read = {}
         THEN { [p EXCEPT !.pc = "failed", !.result = "Err", !.thread_started = TRUE] }
         ELSE { [p EXCEPT !.pc = "loaded", !.events = events] : events \in read }

\* play.rs 19-20 (lib.rs 64-65): File::open(..)? and from_reader(..)?
RunPlayLoad(p) ==
    IF p.file.state = "absent"
    THEN { [p EXCEPT !.pc = "failed", !.result = "Err"] }       \* open fails
    ELSE IF p.file.state = "torn"
    THEN { [p EXCEPT !.pc = "failed", !.result = "Err"] }       \* not JSON
    ELSE LET read == Decode(Encode(p.file.events), p.float_roundtrip) IN
         IF read = {}
         THEN { [p EXCEPT !.pc = "failed", !.result = "Err"] }
         ELSE { [p EXCEPT !.pc = "loaded", !.events = events] : events \in read }

\* play.rs 45-48 (lib.rs 69-71): the playback thread is spawned
LoaderSpawn(p) == [p EXCEPT !.pc = "spawned", !.thread_started = TRUE]

\* play.rs 70: listen(callback); play_macro installs no hook
LoaderListen(p) ==
    [p EXCEPT !.pc = "playing", !.hook_installed = (p.entry = "run_play")]

\* one emission attempt of the playback thread
LoaderEmit(p) == [p EXCEPT !.attempts = @ + 1]

InitLoad ==
    /\ InitSup
    /\ recorder = RecorderOff
    /\ \E s \in SeqsUpTo(CodecEvents, MaxLen), float_roundtrip \in BOOLEAN,
          entry \in {"run_play", "play_macro"} :
          player = InitLoader(s, float_roundtrip, entry)

SaveStep ==
    /\ player.pc = "save"
    /\ \E q \in LoaderSave(player) : player' = q
    /\ UNCHANGED supVars
    /\ UNCHANGED recorder

LoadStep ==
    /\ player.pc = "load"
    /\ \E q \in RunPlayLoad(player) : player' = q
    /\ UNCHANGED supVars
    /\ UNCHANGED recorder

SpawnStep ==
    /\ player.pc = "loaded"
    /\ player' = LoaderSpawn(player)
    /\ UNCHANGED supVars
    /\ UNCHANGED recorder

ListenStep ==
    /\ player.pc = "spawned"
    /\ player' = LoaderListen(player)
    /\ UNCHANGED supVars
    /\ UNCHANGED recorder

EmitStep ==
    /\ player.pc \in {"spawned", "playing"}
    /\ player.attempts < Len(player.events)
    /\ player' = LoaderEmit(player)
    /\ UNCHANGED supVars
    /\ UNCHANGED recorder

NextLoad == SaveStep \/ LoadStep \/ SpawnStep \/ ListenStep \/ EmitStep

SpecLoad == InitLoad /\ [][NextLoad]_vars

(***************************************************************************)
(*                         CLAIMS  C31 - C40                               *)
(***************************************************************************)

\* delay_ms / k truncated toward zero, k = num / den > 0: the only q with
\* q * num <= delay_ms * den < (q + 1) * num
Truncated(delay_ms, k) ==
    CHOOSE q \in 0..(delay_ms * k.den) :
        /\ q * k.num <= delay_ms * k.den
        /\ (q + 1) * k.num > delay_ms * k.den

RECURSIVE SumTruncated(_, _)
SumTruncated(events, k) ==
    IF events = << >> THEN 0
    ELSE Truncated(Head(events).delay_ms, k) + SumTruncated(Tail(events), k)

\* C31: the time slept before each emission attempt is that event's
\* delay_ms / speed truncated toward zero, slept before the attempt and not
\* after it (nothing is slept between an attempt and the next load of the
\* cancel flag); the time slept in a whole pass is the sum of these; at
\* speed 1 each wait is delay_ms.
C31_ScaledDelay ==
    player.pc # "off" =>
    LET n == Len(player.events)
        delay_of(i) == player.events[((i - 1) % n) + 1].delay_ms
    IN  /\ \A i \in 1..Len(player.trace) :
              /\ player.trace[i].waited = Truncated(delay_of(i), player.speed)
              /\ (player.speed.num = player.speed.den)
                    => player.trace[i].waited = delay_of(i)
        /\ player.pc = "simulate"
              => player.slept = Truncated(player.events[player.idx].delay_ms, player.speed)
        /\ player.pc # "simulate" => player.slept = 0
        /\ (player.pc = "event_check" /\ player.idx > n)
              => player.pass_wait = SumTruncated(player.events, player.speed)

\* the pass over two events at speed 2 slept 0 + 37 ms (75 / 2 = 37.5)
C31_Witness ==
    /\ player.pc = "event_check" /\ player.idx > Len(player.events)
    /\ player.speed = [num |-> 2, den |-> 1]
    /\ Len(player.trace) >= 2
    /\ \E i \in 1..Len(player.trace) : player.trace[i].waited = 37
    /\ player.pass_wait = 37

\* the text of the file can be read as an event sequence: the file is whole
\* and no coordinate in it was written as null
Decodable(file) ==
    /\ file.state = "whole"
    /\ \A i \in 1..Len(file.events) :
          file.events[i].kind = "MouseMove"
          => \A c \in 1..2 : file.events[i].payload[c].kind # "nan"

\* C32: when the recording file cannot be opened or does not decode, the
\* load returns an error and nothing else has happened or happens: no
\* playback thread, no input hook, no emission attempt; and a file that does
\* not decode never gets past the load.
C32_LoadFailsFirst ==
    player.pc \notin {"off", "save", "load"} =>
    /\ ~Decodable(player.file) <=> player.pc = "failed"
    /\ player.pc = "failed"
          => /\ player.result = "Err"
             /\ ~player.thread_started
             /\ ~player.hook_installed
             /\ player.attempts = 0
             /\ player.events = << >>
    /\ player.pc # "failed" => player.result = NONE

\* the load of a file that save_events left torn has failed
C32_Witness ==
    /\ player.pc = "failed"
    /\ player.file.state = "torn"
    /\ player.s # << >>

\* C33: the sequence loaded from a file that save_events(s) wrote whole
\* equals s, for every sequence s.
C33_RoundTrip ==
    (player.pc \notin {"off", "save", "load"} /\ player.file.state = "whole")
    => /\ player.pc # "failed"
       /\ player.events = player.s

\* C34: with no cancellation, the first pass begins with no interval wait
\* before it; every later pass begins after exactly one interval wait that
\* lasted at least repeat_interval when repeat_interval > 0, and after no
\* wait when it is 0; no wait follows the last pass.
C34_IntervalWaitBetweenPasses ==
    (player.pc # "off" /\ ~player.stop_flag) =>
    /\ player.passes = 1 => (player.pass_waits = 0 /\ player.pass_gap = 0)
    /\ player.passes > 1 =>
          IF player.repeat_interval > 0
          THEN player.pass_waits = 1 /\ player.pass_gap >= player.repeat_interval
          ELSE player.pass_waits = 0 /\ player.pass_gap = 0
    /\ player.pc = "complete" => (player.waits = 0 /\ player.gap = 0)

\* operations that have returned to the event loop with the process alive
Completed == { w \in Ops \cup WaitOps : ~w.exited /\ ~w.blocked }

\* the operation that left w changed is_recording, the presence of the
\* playback handle or the loaded selection
ChangedDisplayedState(w) ==
    \/ w.state.is_recording # app_state.is_recording
    \/ (w.state.playback_process = NONE) # (app_state.playback_process = NONE)
    \/ w.state.pending_playback # app_state.pending_playback

\* C35: every Supervisor operation that returns leaves the displayed menu
\* and icon equal to the ones derived from AppState as the operation left
\* it; in particular every operation that changed is_recording, the playback
\* handle or the loaded selection does.
C35_DisplayFollowsState ==
    /\ \A w \in Completed : w.menu = update_menu_state(w).menu
    /\ Running => menu = update_menu_state(World).menu

\* a recording start whose spawn failed changed the loaded selection, and
\* a playback was stopped: both changed the display
C35_Witness ==
    /\ \E w \in Completed :
          /\ SpawnFailed(w)
          /\ ChangedDisplayedState(w)
          /\ w.menu # menu
    /\ \E w \in Completed :
          /\ Invokes(w, "handle_toggle_playback")
          /\ ChangedDisplayedState(w)
          /\ w.menu # menu

\* the worlds run_record's start can leave, when it has not run yet
StartOps == IF recorder.pc = "start" THEN RunRecordStart(recorder) ELSE {}

\* C36: at the end of every callback that leaves the worker Recording, and
\* whose write (if it made one) did not fail, the file holds exactly the
\* buffer; the start of run_record leaves the file holding the empty
\* sequence before it listens, and a failure of that first write ends
\* run_record with an error, nothing observed or buffered; while the worker
\* is armed the file still holds the empty sequence.
C36_FileFollowsBuffer ==
    /\ \A event \in ObservedEvents, move \in ClockMoves :
         \A r \in CallbackOps(event, move) :
            (r.pc = "listening" /\ r.is_recording /\ r.last_save = "saved")
            => r.file = FileWhole(r.events)
    /\ \A r \in StartOps :
         IF r.last_save = "saved"
         THEN r.pc = "listening" /\ r.file = FileWhole(<< >>) /\ r.events = << >>
         ELSE r.pc = "failed" /\ r.exit_code = 1 /\ r.events = << >>
    /\ (recorder.pc = "listening" /\ ~recorder.is_recording)
         => recorder.file = FileWhole(<< >>)

\* a callback appended a second event to the buffer and wrote both to the
\* file, which an earlier failed write had left torn
C36_Witness ==
    \E event \in ObservedEvents, move \in ClockMoves :
       \E r \in CallbackOps(event, move) :
          /\ r.pc = "listening" /\ r.is_recording /\ r.last_save = "saved"
          /\ Len(r.events) = 2
          /\ recorder.file = FileTorn

\* C37: between operations, is_recording holds exactly when the recording
\* handle is held and exactly when the temporary recording path is set; and
\* while is_recording holds no recording is selected for playback.
C37_RecordingFieldsAgree ==
    Running =>
    /\ app_state.is_recording <=> app_state.recording_process # NONE
    /\ app_state.is_recording <=> app_state.current_recording_path # NONE
    /\ app_state.is_recording => app_state.pending_playback = NONE

\* the step an operation is in when it has not returned
LastStep(w) == IF w.op_log = << >> THEN NONE ELSE w.op_log[Len(w.op_log)]

\* C38: no Supervisor operation locks the AppState mutex while it holds it:
\* on every path the guard is released before update_menu_state, a nested
\* toggle handler or open_settings locks again; an operation that has
\* returned has released the guard, and an operation that has not returned
\* is inside child.wait() on the recording worker, not waiting for the mutex.
C38_NoSelfDeadlock ==
    \A w \in Ops \cup WaitOps :
       /\ "lock" \notin w.held
       /\ ~w.blocked => ~w.lock
       /\ w.blocked => LastStep(w) \in {"sigterm:failed", "wait:blocked"}

\* settings applied with should_play: three handlers lock in turn within one
\* operation, which returns with the guard released
C38_Witness ==
    \E w \in Ops :
       /\ Invokes(w, "handle_settings_applied")
       /\ Invokes(w, "handle_toggle_playback")
       /\ Invokes(w, "update_menu_state")
       /\ ~w.blocked /\ ~w.lock

\* C39: stop_flag is read once per event, before the sleep of its delay:
\* whenever the flag is set, at most one emission attempt follows, the one
\* of the event whose read had already seen the flag clear (the flag was
\* set during that event's sleep or just before its emission), and no event
\* of a pass begun after the flag was set is emitted.
C39_BoundedOvershoot ==
    player.pc # "off" =>
    /\ player.emitted_after_cancel <= 1
    /\ player.emitted_after_cancel = 1
          => player.cancel_pc \in {"delay_sleep", "simulate"}
    /\ ~player.late_emission

\* the flag was set during the sleep before the first of two events: that
\* event was emitted, the second was not, and the loop stopped
C39_Witness ==
    /\ player.cancel_pc = "delay_sleep"
    /\ player.emitted_after_cancel = 1
    /\ player.pc = "stopped"
    /\ Len(player.events) = 2
    /\ Len(player.trace) = 1

\* C40: while a recording handle or a playback handle is held, neither the
\* load hotkey nor a Load/Unload menu event (with its file selection)
\* changes pending_playback; so while a playback handle is held the loaded
\* selection is the recording being played.
C40_SelectionFrozenWhileBusy ==
    /\ (Running /\ (app_state.recording_process # NONE
                    \/ app_state.playback_process # NONE))
       => /\ \A pressed \in BOOLEAN :
                \A w \in handle_hotkey(World, "load", pressed) :
                   w.state.pending_playback = app_state.pending_playback
          /\ (proxy_queue # << >> /\ Head(proxy_queue) = "load")
                => \A w \in handle_menu_event(World, "load") :
                      w.state.pending_playback = app_state.pending_playback
    /\ (Running /\ app_state.playback_process # NONE)
       => app_state.pending_playback = play_args.path

=============================================================================
